---- MODULE Spec2Model ----
\* Verification model of the variant matrix testing harness of init-npm-pkg:
\* the variant enumerator, the temporary workspace manager and the
\* orchestrator (TestGenerator) of src/src/templates/ci.ts, with the
\* runner script src/unnamed/part_005.
EXTENDS Integers, Sequences, FiniteSets, TLC

\* ------------------------------------------------------------------ bounds
\* Largest variant list a modelled harness run works on.
MaxVariants == 3
\* Largest configured concurrency value.
MaxConcurrency == 3
\* Number of rmSync calls that may throw during one behaviour.
MaxRmFailures == 1
\* Number of variants of one run in whose pipeline a step may fail or fault.
MaxFailures == 1
\* Number of scripts that may be classified as failed in one testScripts call.
MaxFailingScripts == 1
\* Number of generate calls on one TestGenerator.
MaxCalls == 3
\* Number of directories the workspace manager allocates on its own.
MaxDirs == 3
\* Largest exit status a script command ends with.
MaxStatus == 3
\* Number of scripts one testScripts loop may record as failed.
MaxFailedRuns == 2

VARIABLES
  catalog,      \* choices: the four provider catalogs, each a sequence of names
  variants,     \* TestGenerator.variants
  returned,     \* list returned by the latest generate call
  prevReturned, \* list returned by the generate call before it
  lastMode,     \* "all" | "smoke" | "none": the latest generate call
  prevMode,     \* the generate call before it
  calls,        \* number of generate calls made
  tempDirs,     \* TempFileManager.tempDirs: the tracked list
  exists,       \* directories present on disk
  allocated,    \* every directory createTempDir has returned so far
  rmFailed,     \* directories whose rmSync has thrown
  lastCall,     \* the latest TempFileManager call made from outside a pipeline
  concurrency,  \* TestGenerator.concurrency
  iteration,    \* parity of the number of iterations runParallel's loop has made
  phase,        \* position of the runner script
  i,            \* loop index of runSequential / runParallel
  results,      \* the results list of runSequential / runParallel
  task,         \* per variant: the testVariant call for it
  settleOrder,  \* variants of the current chunk in the order their calls resolved
  reordered,    \* some chunk has resolved in an order other than its positions
  exitCode,     \* code passed to process.exit, -1 before
  testCommands, \* variants for which runTests has executed the test command
  cleanRuns,    \* variants whose clean script the harness has executed
  scriptVariant, \* ScriptExecutor.testScripts: the variant argument
  execPc,       \* position of a testScripts call
  scriptPos,    \* number of manifest scripts its loop has visited
  execResults,  \* its `results` mapping, in insertion order
  workspace,    \* content of the src and src-backup directories of projectDir
  lastRun,      \* the latest command an execute*Script call has run
  ranScripts,   \* names of the scripts a command has been executed for
  caller,       \* who constructed the TestGenerator: the runner script or other code
  option,       \* N of --concurrency=N on the runner's command line, 0 if absent
  promptPc,     \* position of PromptsService.getProjectConfig and its caller
  env,          \* CREATE_PACKAGE_PM and CREATE_PACKAGE_FORMATTER
  config,       \* the ProjectConfig being assembled
  userConfig,   \* its createGitRepo and runInstall answers
  generator,    \* which of the two project-generator sources is the one run
  generatePc,   \* position of ProjectGenerator.generateProject and its caller
  targetProjectDirectory, \* the target on disk: whether it exists, and its content
  targetBefore, \* the target on disk when generateProject was called
  processExit   \* code the CLI process has exited with, -1 while it runs

enumVars == <<catalog, variants, returned, prevReturned, lastMode, prevMode, calls>>

tempVars == <<tempDirs, exists, allocated, rmFailed, lastCall>>

runVars == <<concurrency, iteration, phase, i, results, task, settleOrder, reordered, exitCode,
            testCommands, cleanRuns>>

scriptVars == <<scriptVariant, execPc, scriptPos, execResults, workspace, lastRun,
               ranScripts>>

cliVars == <<caller, option, promptPc, env, config,
            userConfig, generator, generatePc, targetProjectDirectory, targetBefore,
            processExit>>

vars == <<catalog, variants, returned, prevReturned, lastMode, prevMode, calls,
          tempDirs, exists, allocated, rmFailed, lastCall,
          concurrency, iteration, phase, i, results, task, settleOrder, reordered, exitCode,
          testCommands, cleanRuns, scriptVariant, execPc, scriptPos, execResults, workspace, lastRun,
          ranScripts, caller, option, promptPc, env, config,
          userConfig, generator, generatePc, targetProjectDirectory, targetBefore,
          processExit>>

\* ---------------------------------------------------------- provider data
PackageManagerCatalog == <<"bun", "npm">>
LinterCatalog == <<"biome", "eslint">>
TesterCatalog == <<"vitest", "buntest", "none">>
VersioningCatalog == <<"changeset">>

SmokePackageManagers == <<"bun", "npm">>
SmokeLinters == <<"biome", "eslint">>
SmokeTesters == <<"vitest", "buntest", "none">>
SmokeVersioning == <<"changeset">>

SmokeCatalog ==
  [packageManagerAndBuilders |-> SmokePackageManagers,
   linterFormatters |-> SmokeLinters,
   testers |-> SmokeTesters,
   versioning |-> SmokeVersioning]

\* The registries as shipped.
choices ==
  [packageManagerAndBuilders |-> PackageManagerCatalog,
   linterFormatters |-> LinterCatalog,
   testers |-> TesterCatalog,
   versioning |-> VersioningCatalog]

\* Names the runner script and the factory mention beyond the shipped
\* registries: further linters and a further versioning provider.
ExtraLinters == <<"ultracite", "prettier">>
ExtraVersioning == <<"release-it">>

\* Non-empty prefixes of a sequence.
Prefixes(s) == {SubSeq(s, 1, k) : k \in 1..Len(s)}

\* Registry contents the enumerator and the runner are checked over: the
\* registries are data read through Object.keys, so each axis ranges over the
\* non-empty prefixes of the shipped names followed by the further ones.
Catalogs ==
  [packageManagerAndBuilders : Prefixes(PackageManagerCatalog),
   linterFormatters : Prefixes(LinterCatalog \o ExtraLinters),
   testers : Prefixes(TesterCatalog),
   versioning : Prefixes(VersioningCatalog \o ExtraVersioning)]

\* ------------------------------------------------------ variant enumerator
\* The object pushed by the innermost loop; name is `${pmb}-${lf}-${tester}`,
\* kept as the triple of its parts.
TestVariant(pmb, lf, tester, ver) ==
  [packageManagerAndBuilder |-> pmb,
   linterFormatter |-> lf,
   tester |-> tester,
   versioning |-> ver,
   name |-> <<pmb, lf, tester>>]

\* generateAllVariants without the guard of its tester loop.
SkipInAllNever(pmb, tester) == FALSE

\* The guard of the tester loop of generateAllVariants.
SkipInAll(pmb, tester) == pmb = "npm" /\ tester = "buntest"

\* generateTestVariants without the guard of its tester loop.
SkipInSmokeNever(pmb, tester) == FALSE

\* The guard of the tester loop of generateTestVariants.
SkipInSmoke(pmb, tester) == pmb = "npm" /\ tester = "buntest"

SkipCombination(mode, pmb, tester) ==
  IF mode = "all" THEN SkipInAll(pmb, tester) ELSE SkipInSmoke(pmb, tester)

\* The innermost loop walking the versioning list from its last entry.
RECURSIVE VersioningLoopUnshift(_, _, _, _, _)
VersioningLoopUnshift(pmb, lf, tester, vers, k) ==
  IF k > Len(vers) THEN <<>>
  ELSE VersioningLoopUnshift(pmb, lf, tester, vers, k + 1)
         \o <<TestVariant(pmb, lf, tester, vers[k])>>

\* for (const ver of versioning) this.variants.push({...}): the objects the
\* iterations from the k-th on push, in push order.
RECURSIVE VersioningLoop(_, _, _, _, _)
VersioningLoop(pmb, lf, tester, vers, k) ==
  IF k > Len(vers) THEN <<>>
  ELSE <<TestVariant(pmb, lf, tester, vers[k])>>
         \o VersioningLoop(pmb, lf, tester, vers, k + 1)

\* for (const tester of testers) { if (skip) continue; ... }
RECURSIVE TesterLoop(_, _, _, _, _)
TesterLoop(mode, pmb, lf, cat, k) ==
  IF k > Len(cat.testers) THEN <<>>
  ELSE IF SkipCombination(mode, pmb, cat.testers[k])
       THEN TesterLoop(mode, pmb, lf, cat, k + 1)
       ELSE VersioningLoop(pmb, lf, cat.testers[k], cat.versioning, 1)
              \o TesterLoop(mode, pmb, lf, cat, k + 1)

\* for (const lf of linterFormatters)
RECURSIVE LinterLoop(_, _, _, _)
LinterLoop(mode, pmb, cat, k) ==
  IF k > Len(cat.linterFormatters) THEN <<>>
  ELSE TesterLoop(mode, pmb, cat.linterFormatters[k], cat, 1)
         \o LinterLoop(mode, pmb, cat, k + 1)

\* for (const pmb of packageManagerAndBuilders)
RECURSIVE PackageManagerLoop(_, _, _)
PackageManagerLoop(mode, cat, k) ==
  IF k > Len(cat.packageManagerAndBuilders) THEN <<>>
  ELSE LinterLoop(mode, cat.packageManagerAndBuilders[k], cat, 1)
         \o PackageManagerLoop(mode, cat, k + 1)

\* A generate call that keeps pushing onto the previous list.
ResetVariantsKeep(old) == old

\* `this.variants = []` at the head of both generate operations.
ResetVariants(old) == <<>>

\* generateAllVariants(): the list it builds from the catalogs.
GenerateAllVariants(old, cat) == ResetVariants(old) \o PackageManagerLoop("all", cat, 1)

\* generateTestVariants(): the list it builds from its own four lists.
GenerateTestVariants(old) == ResetVariants(old) \o PackageManagerLoop("smoke", SmokeCatalog, 1)

\* --------------------------------------------- temporary workspace manager
\* `undefined` where a directory path is expected.
NoDir == <<"none", 0>>

NoCall == [op |-> "none", dir |-> NoDir, before |-> <<>>, threw |-> {}]

Range(s) == {s[k] : k \in 1..Len(s)}

\* Array.prototype.indexOf: 0-based position of the first occurrence, else -1.
IndexOf(s, x) ==
  IF \E k \in 1..Len(s) : s[k] = x
  THEN (CHOOSE k \in 1..Len(s) : s[k] = x /\ \A j \in 1..(k - 1) : s[j] # x) - 1
  ELSE -1

\* s.splice(index): without a delete count every entry from index on goes.
SpliceToEnd(s, index) == SubSeq(s, 1, index)

\* Array.prototype.splice(index, 1) for a 0-based index inside the array.
Splice(s, index) == SubSeq(s, 1, index) \o SubSeq(s, index + 2, Len(s))

\* The manager's view of the world: the tracked list, the disk, and the
\* directories whose removal threw during the call being evaluated.
TempState == [tempDirs |-> tempDirs, exists |-> exists, threw |-> {}]

\* createTempDir(prefix): mkdtempSync has made `dir`; it is pushed.
CreateTempDir(st, dir) ==
  [st EXCEPT !.tempDirs = Append(@, dir), !.exists = @ \cup {dir}]

\* cleanupTempDir without the existsSync guard, on an rmSync that rejects a
\* missing path.
CleanupTempDirUnguarded(st, dir, rmThrows) ==
  IF dir \notin st.exists \/ rmThrows
  THEN [st EXCEPT !.threw = @ \cup {dir}]
  ELSE LET index == IndexOf(st.tempDirs, dir)
       IN [st EXCEPT !.exists = @ \ {dir},
                     !.tempDirs = IF index > -1 THEN Splice(@, index) ELSE @]

\* cleanupTempDir with the indexOf/splice pair moved into a finally block: the
\* path leaves the list whether or not rmSync threw.
CleanupTempDirUntrackAlways(st, dir, rmThrows) ==
  LET index == IndexOf(st.tempDirs, dir)
      tracked == IF index > -1 THEN Splice(st.tempDirs, index) ELSE st.tempDirs
  IN IF dir \in st.exists /\ rmThrows
     THEN [st EXCEPT !.threw = @ \cup {dir}, !.tempDirs = tracked]
     ELSE [st EXCEPT !.exists = @ \ {dir}, !.tempDirs = tracked]

\* cleanupTempDir(dir); rmThrows says whether rmSync, if reached, throws.
CleanupTempDir(st, dir, rmThrows) ==
  IF dir \in st.exists /\ rmThrows
  THEN [st EXCEPT !.threw = @ \cup {dir}]
  ELSE LET index == IndexOf(st.tempDirs, dir)
       IN [st EXCEPT !.exists = @ \ {dir},
                     !.tempDirs = IF index > -1 THEN Splice(@, index) ELSE @]

\* The loop of cleanupAll if cleanupTempDir let the error of rmSync through:
\* the first deletion that throws ends the iteration.
RECURSIVE CleanupAllFromPropagating(_, _, _)
CleanupAllFromPropagating(st, k, throwing) ==
  IF k >= Len(st.tempDirs) \/ st.threw # {} THEN st
  ELSE CleanupAllFromPropagating(
         CleanupTempDir(st, st.tempDirs[k + 1], st.tempDirs[k + 1] \in throwing),
         k + 1, throwing)

\* this.tempDirs.forEach(dir => this.cleanupTempDir(dir)): forEach visits
\* index k only while k is still an index of the array being spliced.
RECURSIVE CleanupAllFrom(_, _, _)
CleanupAllFrom(st, k, throwing) ==
  IF k >= Len(st.tempDirs) THEN st
  ELSE CleanupAllFrom(CleanupTempDir(st, st.tempDirs[k + 1], st.tempDirs[k + 1] \in throwing),
                      k + 1, throwing)

\* cleanupAll(); throwing is the set of directories whose rmSync throws.
CleanupAll(st, throwing) == CleanupAllFrom(st, 0, throwing)

\* rmSync may throw for the directories of ds within the failure budget.
MayThrow(ds) == Cardinality(rmFailed \cup ds) <= MaxRmFailures

RunIdle ==
  /\ concurrency = 1
  /\ iteration = 0
  /\ phase = "idle"
  /\ i = 0
  /\ results = <<>>
  /\ task = <<>>
  /\ settleOrder = <<>>
  /\ reordered = FALSE
  /\ exitCode = -1
  /\ testCommands = {}
  /\ cleanRuns = {}

\* `new TestGenerator()`: no constructor argument, no --concurrency option.
NoArgument == {}
NoOption == 0

\* No getProjectConfig call has been made.
EmptyConfig == [packageManagerAndBuilder |-> "", linterFormatter |-> "", tester |-> ""]

\* A path with nothing at it.
Absent == [exists |-> FALSE, content |-> {}]

\* No getProjectConfig and no generateProject call has been made.
PromptIdle ==
  /\ promptPc = "idle"
  /\ env = [CREATE_PACKAGE_PM |-> "", CREATE_PACKAGE_FORMATTER |-> ""]
  /\ config = EmptyConfig
  /\ userConfig = [createGitRepo |-> FALSE, runInstall |-> FALSE]
  /\ generator = "part_003"
  /\ generatePc = "idle"
  /\ targetProjectDirectory = Absent
  /\ targetBefore = Absent
  /\ processExit = -1

\* The TestGenerator was constructed by code other than the runner script.
CliIdle ==
  /\ caller = "api"
  /\ option = NoOption
  /\ PromptIdle

\* No testScripts call has been made.
ScriptIdle ==
  /\ scriptVariant = TestVariant("bun", "biome", "vitest", "changeset")
  /\ execPc = "idle"
  /\ scriptPos = 0
  /\ execResults = <<>>
  /\ workspace = [src |-> "written", backup |-> "absent"]
  /\ lastRun = [name |-> "none", outcome |-> [kind |-> "none", status |-> {}],
                before |-> [src |-> "written", backup |-> "absent"], value |-> TRUE]
  /\ ranScripts = {}

TempIdle ==
  /\ tempDirs = <<>>
  /\ exists = {}
  /\ allocated = {}
  /\ rmFailed = {}
  /\ lastCall = NoCall

EnumIdle ==
  /\ catalog = choices
  /\ variants = <<>>
  /\ returned = <<>>
  /\ prevReturned = <<>>
  /\ lastMode = "none"
  /\ prevMode = "none"
  /\ calls = 0

InitTemp == EnumIdle /\ TempIdle /\ RunIdle /\ ScriptIdle /\ CliIdle

createTempDir ==
  /\ Cardinality(allocated) < MaxDirs
  /\ LET dir == <<"tmp", Cardinality(allocated) + 1>>
         st == CreateTempDir(TempState, dir)
     IN /\ tempDirs' = st.tempDirs
        /\ exists' = st.exists
        /\ allocated' = allocated \cup {dir}
        /\ lastCall' = [op |-> "createTempDir", dir |-> dir, before |-> tempDirs, threw |-> {}]
  /\ UNCHANGED <<rmFailed, enumVars, scriptVars, cliVars, runVars>>

cleanupTempDir(dir) ==
  /\ \E rmThrows \in BOOLEAN :
       /\ rmThrows => (dir \in exists /\ MayThrow({dir}))
       /\ LET st == CleanupTempDir(TempState, dir, rmThrows)
          IN /\ tempDirs' = st.tempDirs
             /\ exists' = st.exists
             /\ rmFailed' = rmFailed \cup st.threw
             /\ lastCall' = [op |-> "cleanupTempDir", dir |-> dir, before |-> tempDirs,
                             threw |-> st.threw]
  /\ UNCHANGED <<allocated, enumVars, scriptVars, cliVars, runVars>>

\* The effect of a cleanupAll() call on the manager and the disk.
CleanupAllCall ==
  \E throwing \in SUBSET (Range(tempDirs) \cap exists) :
     /\ MayThrow(throwing)
     /\ LET st == CleanupAll(TempState, throwing)
        IN /\ tempDirs' = st.tempDirs
           /\ exists' = st.exists
           /\ rmFailed' = rmFailed \cup st.threw
           /\ lastCall' = [op |-> "cleanupAll", dir |-> NoDir, before |-> tempDirs,
                           threw |-> st.threw]

cleanupAll ==
  /\ CleanupAllCall
  /\ UNCHANGED <<allocated, enumVars, scriptVars, cliVars, runVars>>

NextTemp ==
  \/ createTempDir
  \/ \E dir \in allocated : cleanupTempDir(dir)
  \/ cleanupAll

SpecTemp == InitTemp /\ [][NextTemp]_vars

\* ------------------------------------------------ manifest of a variant
PackageManagerScripts == <<"build", "dev", "clean", "typecheck">>
LinterScripts == <<"lint", "format", "lint:fix">>
TesterScripts(tester) ==
  IF tester = "none" THEN <<>> ELSE <<"test", "test:watch", "test:coverage">>
VersioningScripts == <<"changeset", "version", "release", "local-release">>

\* generatePackageJson: allScripts, the four script tables spread in order.
ManifestScripts(variant) ==
  PackageManagerScripts \o LinterScripts \o TesterScripts(variant.tester) \o VersioningScripts

\* The scripts executeScript runs a command for.
ExecutedScripts == {"lint:fix", "format", "typecheck", "clean", "lint"}

\* testScripts: one entry per declared script except `test`, in manifest
\* order; failing is the set of executed scripts classified as failed.
TestScripts(variant, failing) ==
  LET names == SelectSeq(ManifestScripts(variant), LAMBDA name : name # "test")
  IN [k \in 1..Len(names) |-> <<names[k], names[k] \notin failing>>]

\* What a testScripts call returns: the mapping of its loop, or {} from its
\* outer catch when reading or parsing package.json threw.
TestScriptsReturn(variant, readable, failing) ==
  IF readable THEN TestScripts(variant, failing) ELSE <<>>

\* --------------------------------------------------------- the orchestrator
StepNames ==
  <<"install dependencies", "build project", "run tests", "verify exports",
    "test npm package", "test scripts">>

Unset == {}
UnsetError == [kind |-> "unset", detail |-> <<>>]

\* { variant, success: false }
NewResult(variant) ==
  [variant |-> variant, success |-> FALSE, error |-> UnsetError,
   buildSuccess |-> Unset, exportsMatch |-> Unset, npmPackageWorks |-> Unset,
   scriptResults |-> Unset]

\* The values a throw statement can raise: Error objects, of which two
\* messages are told apart, and a value that is not an Error.
ThrownValues ==
  {[isError |-> TRUE, message |-> "ENOSPC"], [isError |-> TRUE, message |-> "EACCES"],
   [isError |-> FALSE, message |-> "undefined"]}

\* Nothing has been thrown.
NoThrow == [isError |-> FALSE, message |-> "none"]

\* error.message read on whatever was thrown.
CatchMessageOfAny(error) == error.message

\* error instanceof Error ? error.message : 'Unknown error'
CatchMessage(error) == IF error.isError THEN error.message ELSE "Unknown error"

IdleTask ==
  [pc |-> "idle", projectDir |-> NoDir, result |-> NewResult(TestVariant("", "", "", "")),
   trace |-> <<>>, caught |-> NoThrow]

\* The primary and the consumer workspace mkdtempSync makes for variant t.
ProjectDirOf(t) == <<"test", t>>
ConsumerDirOf(t) == <<"consumer", t>>

\* Object.entries(scriptResults).filter(([_, success]) => !success) mapped to names.
FailedScripts(scriptResults) ==
  LET failed == SelectSeq(scriptResults, LAMBDA e : ~e[2])
  IN [k \in 1..Len(failed) |-> failed[k][1]]

\* validateStepResult that lets a failed test run pass.
ValidateStepResultLenient(stepResult, stepName) ==
  IF stepName = "test scripts"
  THEN IF Len(FailedScripts(stepResult)) > 0
       THEN [ok |-> FALSE, error |-> [kind |-> "Scripts failed", detail |-> FailedScripts(stepResult)]]
       ELSE [ok |-> TRUE, error |-> UnsetError]
  ELSE IF ~stepResult /\ stepName # "run tests"
       THEN [ok |-> FALSE, error |-> [kind |-> "Failed to", detail |-> <<stepName>>]]
       ELSE [ok |-> TRUE, error |-> UnsetError]

\* validateStepResult: whether the step passed and the error it sets if not.
ValidateStepResult(stepResult, stepName) ==
  IF stepName = "test scripts"
  THEN IF Len(FailedScripts(stepResult)) > 0
       THEN [ok |-> FALSE, error |-> [kind |-> "Scripts failed", detail |-> FailedScripts(stepResult)]]
       ELSE [ok |-> TRUE, error |-> UnsetError]
  ELSE IF ~stepResult
       THEN [ok |-> FALSE, error |-> [kind |-> "Failed to", detail |-> <<stepName>>]]
       ELSE [ok |-> TRUE, error |-> UnsetError]

\* The same with the loop index compared to the 1-based step number: each
\* field takes the outcome of the step before its own.
RecordStepOffByOne(result, k, stepResult) ==
  IF k = 1 THEN [result EXCEPT !.buildSuccess = {stepResult}]
  ELSE IF k = 3 THEN [result EXCEPT !.exportsMatch = {stepResult}]
  ELSE IF k = 4 THEN [result EXCEPT !.npmPackageWorks = {stepResult}]
  ELSE IF k = 5 THEN [result EXCEPT !.scriptResults = {stepResult}]
  ELSE result

\* if (i === 1) result.buildSuccess = stepResult ... if (i === 5)
\* result.scriptResults = stepResult, for the k-th step (k = i + 1).
RecordStep(result, k, stepResult) ==
  IF k = 2 THEN [result EXCEPT !.buildSuccess = {stepResult}]
  ELSE IF k = 4 THEN [result EXCEPT !.exportsMatch = {stepResult}]
  ELSE IF k = 5 THEN [result EXCEPT !.npmPackageWorks = {stepResult}]
  ELSE IF k = 6 THEN [result EXCEPT !.scriptResults = {stepResult}]
  ELSE result

\* A finally block that forgets the workspace.
FinallySkip(st, projectDir, rmThrows) == st

\* finally { if (projectDir) this.tempManager.cleanupTempDir(projectDir); }
Finally(st, projectDir, rmThrows) ==
  IF projectDir # NoDir THEN CleanupTempDir(st, projectDir, rmThrows) ELSE st

totalVariants == Len(variants)

Min(a, b) == IF a < b THEN a ELSE b

\* this.variants.slice(i, i + this.concurrency), as 1-based positions.
Batch == (i + 1)..Min(i + concurrency, totalVariants)

\* batch.map(...) has called testVariant for every variant of the batch.
Mapped == \A t \in Batch : task[t].pc # "idle"

\* A runner that goes on as soon as one call of the batch has resolved.
BatchSettledAny == Mapped /\ \E t \in Batch : task[t].pc = "done"

\* await Promise.all(batchPromises) is over: every call of the batch resolved.
BatchSettled == Mapped /\ \A t \in Batch : task[t].pc = "done"

\* The results of the batch in the order the calls resolved.
BatchResultsInSettleOrder ==
  [k \in 1..Len(settleOrder) |-> task[settleOrder[k]].result]

\* The value of Promise.all: the results of the batch by position.
BatchResults == [k \in 1..Cardinality(Batch) |-> task[i + k].result]

HarnessCatalogs ==
  {c \in Catalogs :
     /\ Len(c.linterFormatters) <= Len(LinterCatalog)
     /\ Len(c.versioning) <= Len(VersioningCatalog)
     /\ Len(GenerateAllVariants(<<>>, c)) <= MaxVariants}

\* constructor(concurrency: number = 1): the field for a given argument.
Constructor(argument) ==
  IF argument = NoArgument THEN 1 ELSE CHOOSE c \in argument : TRUE

\* The runner script started with any --concurrency option, or none, builds
\* its TestGenerator with `new TestGenerator()`; other code may pass any
\* concurrency to the constructor.
Init ==
  /\ catalog \in HarnessCatalogs
  /\ variants = <<>>
  /\ returned = <<>>
  /\ prevReturned = <<>>
  /\ lastMode = "none"
  /\ prevMode = "none"
  /\ calls = 0
  /\ TempIdle
  /\ caller \in {"main", "api"}
  /\ option \in IF caller = "main" THEN {NoOption} \cup 1..MaxConcurrency ELSE {NoOption}
  /\ concurrency \in IF caller = "main" THEN {Constructor(NoArgument)}
                     ELSE {Constructor({c}) : c \in 1..MaxConcurrency}
  /\ iteration = 0
  /\ PromptIdle
  /\ phase = "start"
  /\ i = 0
  /\ results = <<>>
  /\ task = <<>>
  /\ settleOrder = <<>>
  /\ reordered = FALSE
  /\ exitCode = -1
  /\ testCommands = {}
  /\ cleanRuns = {}
  /\ ScriptIdle

\* main: testGenerator.generateAllVariants() (the run without --test).
mainGenerate ==
  /\ phase = "start"
  /\ variants' = GenerateAllVariants(variants, catalog)
  /\ returned' = variants'
  /\ prevReturned' = returned
  /\ lastMode' = "all"
  /\ prevMode' = lastMode
  /\ calls' = calls + 1
  /\ phase' = "generated"
  /\ UNCHANGED <<catalog, scriptVars, cliVars, tempVars, concurrency, iteration, i, results, task, settleOrder, reordered, exitCode, testCommands, cleanRuns>>

\* runAllTests() is entered; runSequential / runParallel set up their loop.
runAllTests ==
  /\ phase = "generated"
  /\ phase' = "running"
  /\ i' = 0
  /\ results' = <<>>
  /\ task' = [t \in 1..totalVariants |-> IdleTask]
  /\ UNCHANGED <<enumVars, scriptVars, cliVars, tempVars, concurrency, iteration, settleOrder, reordered, exitCode, testCommands, cleanRuns>>

\* The entry of the trace of a call: the step invoked and what it returned.
Entry(step, value, thrown) == [step |-> step, value |-> value, thrown |-> thrown]

SetTemp(st) ==
  /\ tempDirs' = st.tempDirs
  /\ exists' = st.exists
  /\ rmFailed' = rmFailed \cup st.threw

\* The step of a trace entry did not succeed.
EntryFailed(e) ==
  IF e.step = "test scripts" THEN \E k \in 1..Len(e.value) : ~e.value[k][2]
  ELSE e.thrown \/ ~e.value

\* The step of a trace entry did not succeed, or it hit the outer catch of
\* testScripts (package.json unreadable, {} returned).
EntryFaulted(e) == EntryFailed(e) \/ (e.step = "test scripts" /\ e.value = <<>>)

\* Another step outcome may be a failure within the failure budget.
CanFail ==
  Cardinality({t \in DOMAIN task :
                 \E k \in 1..Len(task[t].trace) : EntryFaulted(task[t].trace[k])}) < MaxFailures

\* createTestProject whose catch block returns without cleaning up.
CreateTestProjectNoCleanup(st, dir, outcome, rmThrows) ==
  IF outcome = "threw"
  THEN [st |-> st, thrown |-> TRUE, success |-> FALSE, projectDir |-> NoDir]
  ELSE IF outcome = "created"
  THEN [st |-> CreateTempDir(st, dir), thrown |-> FALSE, success |-> TRUE, projectDir |-> dir]
  ELSE [st |-> CreateTempDir(st, dir),
        thrown |-> FALSE, success |-> FALSE, projectDir |-> NoDir]

\* createTestProject(variant), dir being the directory mkdtempSync makes.
\* outcome "threw": mkdtempSync throws, outside the try block; "created":
\* the project is resolved and written; "failed": createProject or
\* writeProjectFiles throws and the catch block cleans up.
CreateTestProject(st, dir, outcome, rmThrows) ==
  IF outcome = "threw"
  THEN [st |-> st, thrown |-> TRUE, success |-> FALSE, projectDir |-> NoDir]
  ELSE IF outcome = "created"
  THEN [st |-> CreateTempDir(st, dir), thrown |-> FALSE, success |-> TRUE, projectDir |-> dir]
  ELSE [st |-> CleanupTempDir(CreateTempDir(st, dir), dir, rmThrows),
        thrown |-> FALSE, success |-> FALSE, projectDir |-> NoDir]

\* testVariant(variant) up to its first await: createTestProject has run.
TestVariantCall(t) ==
  /\ task[t].pc = "idle"
  /\ \E outcome \in {"created", "failed", "threw"}, rmThrows \in BOOLEAN,
        error \in ThrownValues \cup {NoThrow} :
       LET dir == ProjectDirOf(t)
           created == CreateTestProject(TempState, dir, outcome, rmThrows)
       IN /\ rmThrows => (outcome = "failed" /\ MayThrow({dir}))
          /\ (error # NoThrow) <=> created.thrown
          /\ outcome # "created" => CanFail
          /\ SetTemp(created.st)
          /\ allocated' = IF outcome = "threw" THEN allocated ELSE allocated \cup {dir}
          /\ task' = [task EXCEPT ![t] =
                        [pc |-> "awaiting", projectDir |-> NoDir,
                         result |-> NewResult(variants[t]),
                         trace |-> <<Entry("create", created.success, created.thrown)>>,
                         caught |-> error]]

\* for (let i ...) { ... await this.testVariant(variant, ...) }: the call.
runSequentialCall ==
  /\ phase = "running" /\ concurrency = 1 /\ i < totalVariants
  /\ TestVariantCall(i + 1)
  /\ settleOrder' = <<>>
  /\ UNCHANGED <<enumVars, scriptVars, cliVars, lastCall, concurrency, iteration, phase, i, results, reordered, exitCode, testCommands, cleanRuns>>

\* ... results.push(result): the awaited call has resolved.
runSequentialPush ==
  /\ phase = "running" /\ concurrency = 1 /\ i < totalVariants
  /\ task[i + 1].pc = "done"
  /\ results' = Append(results, task[i + 1].result)
  /\ i' = i + 1
  /\ UNCHANGED <<enumVars, scriptVars, cliVars, tempVars, concurrency, iteration, phase, task, settleOrder, reordered, exitCode, testCommands, cleanRuns>>

\* batch.map((variant, j) => this.testVariant(...)): the call for position t.
runParallelMap(t) ==
  /\ phase = "running" /\ concurrency # 1 /\ i < totalVariants
  /\ t \in Batch
  /\ \A u \in Batch : u < t => task[u].pc # "idle"
  /\ TestVariantCall(t)
  /\ settleOrder' = IF t = i + 1 THEN <<>> ELSE settleOrder
  /\ UNCHANGED <<enumVars, scriptVars, cliVars, lastCall, concurrency, iteration, phase, i, results, reordered, exitCode, testCommands, cleanRuns>>

\* const batchResults = await Promise.all(batchPromises); results.push(...batchResults)
runParallelAwait ==
  /\ phase = "running" /\ concurrency # 1 /\ i < totalVariants
  /\ BatchSettled
  /\ results' = results \o BatchResults
  /\ i' = i + concurrency
  /\ iteration' = 1 - iteration
  /\ UNCHANGED <<enumVars, scriptVars, cliVars, tempVars, concurrency, phase, task, settleOrder, reordered, exitCode, testCommands, cleanRuns>>

\* A runner that gives up its loop once a result reports a failure.
runReturnOnFailure ==
  /\ phase = "running"
  /\ (i >= totalVariants \/ \E k \in 1..Len(results) : ~results[k].success)
  /\ phase' = "returned"
  /\ UNCHANGED <<enumVars, scriptVars, cliVars, tempVars, concurrency, iteration, i, results, task, settleOrder, reordered, exitCode, testCommands, cleanRuns>>

\* return results
runReturn ==
  /\ phase = "running" /\ i >= totalVariants
  /\ phase' = "returned"
  /\ UNCHANGED <<enumVars, scriptVars, cliVars, tempVars, concurrency, iteration, i, results, task, settleOrder, reordered, exitCode, testCommands, cleanRuns>>

\* A suspended call may go on: the runner is itself awaiting.
Resumable(t) ==
  /\ phase = "running"
  /\ t \in DOMAIN task
  /\ task[t].pc = "awaiting"
  /\ concurrency # 1 => (i < totalVariants => Mapped)

LastEntry(t) == task[t].trace[Len(task[t].trace)]

\* The call for t resolves with result r, leaving the temp state st.
Resolve(t, r, st) ==
  /\ SetTemp(st)
  /\ task' = [task EXCEPT ![t].pc = "done", ![t].result = r]
  /\ settleOrder' = Append(settleOrder, t)
  /\ reordered' = (reordered \/ \E k \in 1..Len(settleOrder) : settleOrder[k] > t)
  /\ UNCHANGED <<enumVars, scriptVars, cliVars, allocated, lastCall, concurrency, iteration, phase, i, results, exitCode, testCommands, cleanRuns>>

\* The call for t invokes step k, which returns value, and awaits it.
Invoke(t, k, r, dir, value, st) ==
  /\ SetTemp(st)
  /\ task' = [task EXCEPT ![t].result = r, ![t].projectDir = dir,
                          ![t].trace = Append(@, Entry(StepNames[k], value, FALSE))]
  /\ UNCHANGED <<enumVars, scriptVars, cliVars, lastCall, concurrency, iteration, phase, i, results, settleOrder, reordered, exitCode>>

\* Position in StepNames of the step the call for t is awaiting, 0 for create.
Awaited(t) ==
  IF LastEntry(t).step = "create" THEN 0
  ELSE CHOOSE k \in 1..Len(StepNames) : StepNames[k] = LastEntry(t).step

\* The same without `if (!projectDir) return result` after the create step.
AwaitedPassedUnchecked(t) ==
  IF Awaited(t) = 0 THEN TRUE
  ELSE ValidateStepResult(LastEntry(t).value, LastEntry(t).step).ok

\* The awaited step passed validation (create: the workspace was produced).
AwaitedPassed(t) ==
  IF Awaited(t) = 0 THEN LastEntry(t).value /\ ~LastEntry(t).thrown
  ELSE ValidateStepResult(LastEntry(t).value, LastEntry(t).step).ok

\* The result with the awaited step recorded, and the workspace of the call.
Recorded(t) ==
  IF Awaited(t) = 0 THEN task[t].result
  ELSE RecordStep(task[t].result, Awaited(t), LastEntry(t).value)

DirAfter(t) == IF Awaited(t) = 0 THEN ProjectDirOf(t) ELSE task[t].projectDir

\* catch (error) { result.error = error instanceof Error ? error.message : 'Unknown error' }
\* for the value thrown out of createTestProject; finally finds projectDir
\* undefined.
catchThrown(t) ==
  /\ Resumable(t)
  /\ LastEntry(t).thrown
  /\ Resolve(t, [task[t].result EXCEPT
                   !.error = [kind |-> "thrown", detail |-> <<CatchMessage(task[t].caught)>>]],
             Finally(TempState, task[t].projectDir, FALSE))

\* createAndSetupProject returning undefined without setting result.error.
createFailedSilent(t) ==
  /\ Resumable(t)
  /\ Awaited(t) = 0 /\ ~LastEntry(t).thrown /\ ~LastEntry(t).value
  /\ Resolve(t, task[t].result, Finally(TempState, task[t].projectDir, FALSE))

\* createAndSetupProject found !created.success: `if (!projectDir) return result`.
createFailed(t) ==
  /\ Resumable(t)
  /\ Awaited(t) = 0 /\ ~LastEntry(t).thrown /\ ~LastEntry(t).value
  /\ Resolve(t, [task[t].result EXCEPT !.error = [kind |-> "Failed to", detail |-> <<"create project">>]],
             Finally(TempState, task[t].projectDir, FALSE))

\* validateStepResult returned false: `return result`, then the finally block.
stepFailed(t) ==
  /\ Resumable(t)
  /\ Awaited(t) > 0 /\ ~AwaitedPassed(t)
  /\ \E rmThrows \in BOOLEAN :
       /\ rmThrows => MayThrow({task[t].projectDir})
       /\ Resolve(t, [Recorded(t) EXCEPT
                        !.error = ValidateStepResult(LastEntry(t).value, LastEntry(t).step).error],
                  Finally(TempState, task[t].projectDir, rmThrows))

\* The loop is over: result.success = true, then the finally block.
allStepsPassed(t) ==
  /\ Resumable(t)
  /\ Awaited(t) = Len(StepNames) /\ AwaitedPassed(t)
  /\ \E rmThrows \in BOOLEAN :
       /\ rmThrows => MayThrow({task[t].projectDir})
       /\ Resolve(t, [Recorded(t) EXCEPT !.success = TRUE],
                  Finally(TempState, task[t].projectDir, rmThrows))

\* The previous step passed and step k is the next one of the loop.
NextStepIs(t, k) == Resumable(t) /\ Awaited(t) = k - 1 /\ AwaitedPassed(t)

installDependencies(t) ==
  /\ NextStepIs(t, 1)
  /\ \E value \in BOOLEAN :
       /\ ~value => CanFail
       /\ Invoke(t, 1, Recorded(t), DirAfter(t), value, TempState)
  /\ UNCHANGED <<allocated, testCommands, cleanRuns>>

\* A harness that also empties the build output as part of its build step.
StepRunsCleanAtBuild(k, variant, readable) ==
  \/ k = 2
  \/ k = 6 /\ readable /\ "clean" \in Range(ManifestScripts(variant)) \cap ExecutedScripts

\* Whether the k-th step executes the clean script of the manifest: only
\* testScripts does, for a manifest it could read; buildProject runs build.
StepRunsClean(k, variant, readable) ==
  k = 6 /\ readable /\ "clean" \in Range(ManifestScripts(variant)) \cap ExecutedScripts

buildProject(t) ==
  /\ NextStepIs(t, 2)
  /\ \E value \in BOOLEAN :
       /\ ~value => CanFail
       /\ Invoke(t, 2, Recorded(t), DirAfter(t), value, TempState)
  /\ cleanRuns' = IF StepRunsClean(2, variants[t], TRUE) THEN cleanRuns \cup {t} ELSE cleanRuns
  /\ UNCHANGED <<allocated, testCommands>>

\* runTests without its special case: the test command is always executed.
RunTestsAlways(variant, passes) == [value |-> passes, invoked |-> TRUE]

\* runTests(variant, projectDir): what it returns and whether it has executed
\* the test command; passes says whether execSync returns without throwing.
RunTests(variant, passes) ==
  IF variant.tester = "none" THEN [value |-> TRUE, invoked |-> FALSE]
  ELSE [value |-> passes, invoked |-> TRUE]

runTests(t) ==
  /\ NextStepIs(t, 3)
  /\ \E passes \in BOOLEAN :
       LET ran == RunTests(variants[t], passes)
       IN /\ ~ran.value => CanFail
          /\ Invoke(t, 3, Recorded(t), DirAfter(t), ran.value, TempState)
          /\ testCommands' = IF ran.invoked THEN testCommands \cup {t} ELSE testCommands
  /\ UNCHANGED <<allocated, cleanRuns>>

verifyExports(t) ==
  /\ NextStepIs(t, 4)
  /\ \E value \in BOOLEAN :
       /\ ~value => CanFail
       /\ Invoke(t, 4, Recorded(t), DirAfter(t), value, TempState)
  /\ UNCHANGED <<allocated, testCommands, cleanRuns>>

\* testPackageAsNpmPackage: the consumer workspace is allocated inside the
\* try; if mkdtempSync throws, false is returned and none exists.
testPackageAsNpmPackage(t) ==
  /\ NextStepIs(t, 5)
  /\ \E value \in BOOLEAN, made \in BOOLEAN :
       /\ ~made => ~value
       /\ ~value => CanFail
       /\ Invoke(t, 5, Recorded(t), DirAfter(t), value,
                 IF made THEN CreateTempDir(TempState, ConsumerDirOf(t)) ELSE TempState)
       /\ allocated' = IF made THEN allocated \cup {ConsumerDirOf(t)} ELSE allocated
  /\ UNCHANGED <<testCommands, cleanRuns>>

testScripts(t) ==
  /\ NextStepIs(t, 6)
  /\ \E readable \in BOOLEAN, failing \in SUBSET ExecutedScripts :
       /\ Cardinality(failing) <= MaxFailingScripts
       /\ ~readable => failing = {}
       /\ (~readable \/ failing # {}) => CanFail
       /\ Invoke(t, 6, Recorded(t), DirAfter(t),
                 TestScriptsReturn(variants[t], readable, failing), TempState)
       /\ cleanRuns' = IF StepRunsClean(6, variants[t], readable) THEN cleanRuns \cup {t}
                       ELSE cleanRuns
  /\ UNCHANGED <<allocated, testCommands>>

\* The exit code of a runner that is content with one successful variant.
ExitCodeAnySuccess(rs) == IF \E k \in 1..Len(rs) : rs[k].success THEN 0 ELSE 1

\* main: successful === total ? 0 : 1, successful being the number of
\* results with success = true and total the number of results.
ExitCode(rs) ==
  LET successful == Cardinality({k \in 1..Len(rs) : rs[k].success})
      total == Len(rs)
  IN IF successful = total THEN 0 ELSE 1

\* main: successful === total ? process.exit(0) : process.exit(1). The
\* process ends inside the try block; the finally block is never entered.
mainExit ==
  /\ phase = "returned"
  /\ exitCode' = ExitCode(results)
  /\ phase' = "exited"
  /\ UNCHANGED <<enumVars, scriptVars, cliVars, tempVars, concurrency, iteration, i, results, task, settleOrder, reordered, testCommands, cleanRuns>>

\* main: generateReport(results) throws; the catch block calls
\* process.exit(1), so the finally block is not entered here either.
mainCatch ==
  /\ phase = "returned"
  /\ exitCode' = 1
  /\ phase' = "crashed"
  /\ UNCHANGED <<enumVars, scriptVars, cliVars, tempVars, concurrency, iteration, i, results, task, settleOrder, reordered, testCommands, cleanRuns>>

\* TestGenerator.cleanup(), called once runAllTests has returned.
cleanup ==
  /\ phase = "returned"
  /\ CleanupAllCall
  /\ phase' = "cleaned"
  /\ UNCHANGED <<enumVars, scriptVars, cliVars, allocated, concurrency, iteration, i, results, task, settleOrder, reordered, exitCode, testCommands, cleanRuns>>

Next ==
  \/ mainGenerate
  \/ runAllTests
  \/ runSequentialCall
  \/ runSequentialPush
  \/ \E t \in DOMAIN task : runParallelMap(t)
  \/ runParallelAwait
  \/ runReturn
  \/ \E t \in DOMAIN task : catchThrown(t)
  \/ \E t \in DOMAIN task : createFailed(t)
  \/ \E t \in DOMAIN task : stepFailed(t)
  \/ \E t \in DOMAIN task : allStepsPassed(t)
  \/ \E t \in DOMAIN task : installDependencies(t)
  \/ \E t \in DOMAIN task : buildProject(t)
  \/ \E t \in DOMAIN task : runTests(t)
  \/ \E t \in DOMAIN task : verifyExports(t)
  \/ \E t \in DOMAIN task : testPackageAsNpmPackage(t)
  \/ \E t \in DOMAIN task : testScripts(t)
  \/ mainExit
  \/ mainCatch
  \/ cleanup

Spec == Init /\ [][Next]_vars

\* ------------------------------------- the monolithic runner (generator.ts)
\* The methods the loop body of the monolithic runAllTests calls, in order,
\* under the names of the steps that took them over.
MonolithSteps ==
  <<"create", "install dependencies", "build project", "run tests", "verify exports",
    "test npm package", "test scripts">>

\* result.error = '...' of the branch taken when the k-th method failed.
MonolithError(k, value) ==
  IF k = 1 THEN [kind |-> "text", detail |-> <<"Failed to create project">>]
  ELSE IF k = 2 THEN [kind |-> "text", detail |-> <<"Failed to install dependencies">>]
  ELSE IF k = 3 THEN [kind |-> "text", detail |-> <<"Failed to build project">>]
  ELSE IF k = 4 THEN [kind |-> "text", detail |-> <<"Failed to run tests">>]
  ELSE IF k = 5 THEN [kind |-> "text", detail |-> <<"Exports verification failed">>]
  ELSE IF k = 6 THEN [kind |-> "text", detail |-> <<"NPM package import test failed">>]
  ELSE [kind |-> "Scripts failed", detail |-> FailedScripts(value)]

\* The monolith without `if (!tested) { ...; continue; }` after runTests.
MonolithPassedNoTestCheck(k, value) ==
  IF k = 7 THEN Len(FailedScripts(value)) = 0
  ELSE IF k = 4 THEN TRUE
  ELSE value

\* if (!created.success) / if (!installed) / ... / if (failedScripts.length > 0):
\* the k-th method's return value lets the body go on.
MonolithPassed(k, value) ==
  IF k = 7 THEN Len(FailedScripts(value)) = 0 ELSE value

\* result.buildSuccess = built; result.exportsMatch = exportsMatch;
\* result.npmPackageWorks = npmPackageWorks; result.scriptResults = scriptResults
MonolithRecord(result, k, value) ==
  IF k = 3 THEN [result EXCEPT !.buildSuccess = {value}]
  ELSE IF k = 5 THEN [result EXCEPT !.exportsMatch = {value}]
  ELSE IF k = 6 THEN [result EXCEPT !.npmPackageWorks = {value}]
  ELSE IF k = 7 THEN [result EXCEPT !.scriptResults = {value}]
  ELSE result

\* The body of the monolith's loop from its k-th method call on, the calls
\* returning what the entries of `outcomes` say (outcomes[k] for the k-th
\* call, `caught` being what a throwing call raised): the result pushed, the
\* number of methods called, whether the finally block found projectDir set
\* and called cleanupTempDir, and whether `outcomes` had an entry for every call.
RECURSIVE MonolithFrom(_, _, _, _)
MonolithFrom(result, outcomes, caught, k) ==
  IF k > Len(MonolithSteps)
  THEN [result |-> [result EXCEPT !.success = TRUE], invoked |-> k - 1,
        cleaned |-> TRUE, replayed |-> TRUE]
  ELSE IF k > Len(outcomes)
  THEN [result |-> result, invoked |-> k, cleaned |-> k > 1, replayed |-> FALSE]
  ELSE IF outcomes[k].thrown
  THEN [result |-> [result EXCEPT !.error = [kind |-> "thrown",
                                             detail |-> <<CatchMessage(caught)>>]],
        invoked |-> k, cleaned |-> k > 1, replayed |-> TRUE]
  ELSE IF ~MonolithPassed(k, outcomes[k].value)
  THEN [result |-> [MonolithRecord(result, k, outcomes[k].value) EXCEPT
                      !.error = MonolithError(k, outcomes[k].value)],
        invoked |-> k, cleaned |-> k > 1, replayed |-> TRUE]
  ELSE MonolithFrom(MonolithRecord(result, k, outcomes[k].value), outcomes, caught, k + 1)

\* The method calls and the workspace cleanup of one iteration, in order.
MonolithEvents(m) ==
  SubSeq(MonolithSteps, 1, m.invoked) \o (IF m.cleaned THEN <<"cleanupTempDir">> ELSE <<>>)

\* The monolithic runAllTests: const result = { variant, success: false }
\* and the loop body for each variant, one result pushed per variant in
\* list order.
MonolithRunAllTests(vs, outcomes, caught) ==
  [k \in 1..Len(vs) |-> MonolithFrom(NewResult(vs[k]), outcomes[k], caught[k], 1).result]

\* A TestGenerator constructed with any concurrency from 0 up, by code other
\* than the runner script.
InitLive ==
  /\ catalog \in HarnessCatalogs
  /\ variants = <<>>
  /\ returned = <<>>
  /\ prevReturned = <<>>
  /\ lastMode = "none"
  /\ prevMode = "none"
  /\ calls = 0
  /\ TempIdle
  /\ caller = "api"
  /\ option = NoOption
  /\ concurrency \in {Constructor({c}) : c \in 0..MaxConcurrency}
  /\ iteration = 0
  /\ PromptIdle
  /\ phase = "start"
  /\ i = 0
  /\ results = <<>>
  /\ task = <<>>
  /\ settleOrder = <<>>
  /\ reordered = FALSE
  /\ exitCode = -1
  /\ testCommands = {}
  /\ cleanRuns = {}
  /\ ScriptIdle

\* Every subprocess call returns and the event loop runs every continuation
\* that is ready: a step that can be taken is eventually taken.
SpecLive == InitLive /\ [][Next]_vars /\ WF_vars(Next)

\* ---------------------------------------------------- the script executor
\* What execSync can do with a script command: return (exit status 0), throw
\* an error carrying the non-zero exit status, or throw an error carrying no
\* status (the command was killed at the timeout, or could not be spawned).
ExecOutcomes ==
  {[kind |-> "exit", status |-> {n}] : n \in 0..MaxStatus}
    \cup {[kind |-> "timeout", status |-> {}], [kind |-> "spawn error", status |-> {}]}

\* execSync throws.
Throws(outcome) == outcome # [kind |-> "exit", status |-> {0}]

\* (error as any)?.status, as a set: empty when the error has none.
ErrorStatus(outcome) == outcome.status

\* executeSimpleScript that lets exit status 1 pass.
ExecuteSimpleScriptTolerant(outcome) ==
  IF ~Throws(outcome) THEN TRUE ELSE ErrorStatus(outcome) = {1}

\* executeSimpleScript: true when execSync returns, false when it throws.
ExecuteSimpleScript(outcome) ==
  IF ~Throws(outcome) THEN TRUE ELSE FALSE

\* executeLintScript that lets no error pass.
ExecuteLintScriptStrict(outcome) ==
  IF ~Throws(outcome) THEN TRUE ELSE FALSE

\* executeLintScript: status 1 passes, status 2 and everything else fails.
ExecuteLintScript(outcome) ==
  IF ~Throws(outcome) THEN TRUE
  ELSE IF ErrorStatus(outcome) = {1} THEN TRUE
  ELSE IF ErrorStatus(outcome) = {2} THEN FALSE
  ELSE FALSE

\* if (fs.existsSync(srcDir)) fs.cpSync(srcDir, backupDir, { recursive: true })
Snapshot(ws) == IF ws.src # "absent" THEN [ws EXCEPT !.backup = ws.src] ELSE ws

\* restoreSourceFiles(srcDir, backupDir)
RestoreSourceFiles(ws) ==
  IF ws.backup # "absent" THEN [src |-> ws.backup, backup |-> "absent"] ELSE ws

\* The directories of the workspace holding files the format / lint:fix
\* command of a linter rewrites: biome.json includes src/**/*.ts only, while
\* `prettier --write .` and `eslint . --fix` take every source file under
\* the project directory, the ones copied to src-backup among them.
FormatTargets(linter) == IF linter = "biome" THEN {"src"} ELSE {"src", "backup"}

\* The workspace after a command has rewritten the files of dirs.
Rewritten(ws, dirs) ==
  [src |-> IF "src" \in dirs /\ ws.src # "absent" THEN "rewritten" ELSE ws.src,
   backup |-> IF "backup" \in dirs /\ ws.backup # "absent" THEN "rewritten" ELSE ws.backup]

\* executeFormattingScript that lets only exit status 1 pass besides 0.
ExecuteFormattingScriptStrict(ws, outcome, dirs) ==
  LET ran == Rewritten(Snapshot(ws), dirs)
  IN IF ~Throws(outcome) THEN [workspace |-> RestoreSourceFiles(ran), value |-> TRUE]
     ELSE IF ErrorStatus(outcome) = {1}
     THEN [workspace |-> RestoreSourceFiles(ran), value |-> TRUE]
     ELSE [workspace |-> RestoreSourceFiles(ran), value |-> FALSE]

\* executeFormattingScript: snapshot, run, restore on each of the three
\* paths; dirs are the directories whose files the command rewrote.
ExecuteFormattingScript(ws, outcome, dirs) ==
  LET ran == Rewritten(Snapshot(ws), dirs)
  IN IF ~Throws(outcome) THEN [workspace |-> RestoreSourceFiles(ran), value |-> TRUE]
     ELSE IF ErrorStatus(outcome) = {1} \/ ErrorStatus(outcome) = {2}
     THEN [workspace |-> RestoreSourceFiles(ran), value |-> TRUE]
     ELSE [workspace |-> RestoreSourceFiles(ran), value |-> FALSE]

\* The scripts executeScript passes on to the three execute*Script methods.
FormattingScripts == {"lint:fix", "format"}
SimpleScripts == {"typecheck", "clean"}
LintScripts == {"lint"}

\* Object.entries(scripts) of the manifest testScripts has read.
Scripts == ManifestScripts(scriptVariant)

\* A script loop that ends at the first script recorded as failed.
LoopDoneOnFailure ==
  \/ scriptPos >= Len(Scripts)
  \/ \E k \in 1..Len(execResults) : ~execResults[k][2]

\* for (const [scriptName, scriptCommand] of Object.entries(scripts)) is over.
LoopDone == scriptPos >= Len(Scripts)

\* const scriptName of the iteration the loop is in.
ScriptName == Scripts[scriptPos + 1]

\* One more script may be recorded as failed.
CanFailRun ==
  Cardinality({k \in 1..Len(execResults) : ~execResults[k][2]}) < MaxFailedRuns

InitScripts ==
  /\ EnumIdle
  /\ TempIdle
  /\ RunIdle
  /\ CliIdle
  /\ scriptVariant \in Range(GenerateAllVariants(<<>>, choices))
  /\ execPc = "called"
  /\ scriptPos = 0
  /\ execResults = <<>>
  /\ workspace = [src |-> "written", backup |-> "absent"]
  /\ lastRun = [name |-> "none", outcome |-> [kind |-> "none", status |-> {}],
                before |-> [src |-> "written", backup |-> "absent"], value |-> TRUE]
  /\ ranScripts = {}

\* JSON.parse(fs.readFileSync(packageJsonPath, 'utf8')) returns.
readManifest ==
  /\ execPc = "called"
  /\ execPc' = "loop"
  /\ UNCHANGED <<enumVars, tempVars, runVars, cliVars, scriptVariant, scriptPos, execResults, workspace, lastRun, ranScripts>>

\* ... or throws: the outer catch returns {}.
readManifestThrows ==
  /\ execPc = "called"
  /\ execPc' = "caught"
  /\ execResults' = <<>>
  /\ UNCHANGED <<enumVars, tempVars, runVars, cliVars, scriptVariant, scriptPos, workspace, lastRun, ranScripts>>

\* if (scriptName === 'test') continue
skipTest ==
  /\ execPc = "loop" /\ ~LoopDone
  /\ ScriptName = "test"
  /\ scriptPos' = scriptPos + 1
  /\ UNCHANGED <<enumVars, tempVars, runVars, cliVars, scriptVariant, execPc, execResults, workspace, lastRun, ranScripts>>

\* results[scriptName] = value, after the command of the script has run.
Record(value, ws, outcome) ==
  /\ ~value => CanFailRun
  /\ execResults' = Append(execResults, <<ScriptName, value>>)
  /\ scriptPos' = scriptPos + 1
  /\ workspace' = ws
  /\ lastRun' = [name |-> ScriptName, outcome |-> outcome, before |-> workspace, value |-> value]
  /\ ranScripts' = ranScripts \cup {ScriptName}
  /\ UNCHANGED <<enumVars, tempVars, runVars, cliVars, scriptVariant, execPc>>

\* executeScript running `<runPrefix> <scriptName>` for every script it has
\* no special case for.
executeUntestedRun ==
  /\ execPc = "loop" /\ ~LoopDone
  /\ ScriptName \notin {"test"} \cup FormattingScripts \cup SimpleScripts \cup LintScripts
  /\ \E outcome \in ExecOutcomes : Record(ExecuteSimpleScript(outcome), workspace, outcome)

\* executeScript returns true without running anything: build and dev are
\* tested separately, other scripts are marked as untested.
executeUntested ==
  /\ execPc = "loop" /\ ~LoopDone
  /\ ScriptName \notin {"test"} \cup FormattingScripts \cup SimpleScripts \cup LintScripts
  /\ execResults' = Append(execResults, <<ScriptName, TRUE>>)
  /\ scriptPos' = scriptPos + 1
  /\ UNCHANGED <<enumVars, tempVars, runVars, cliVars, scriptVariant, execPc, workspace, lastRun, ranScripts>>

executeFormattingScript ==
  /\ execPc = "loop" /\ ~LoopDone
  /\ ScriptName \in FormattingScripts
  /\ \E outcome \in ExecOutcomes, dirs \in SUBSET FormatTargets(scriptVariant.linterFormatter) :
       /\ outcome.kind = "spawn error" => dirs = {}
       /\ LET done == ExecuteFormattingScript(workspace, outcome, dirs)
          IN Record(done.value, done.workspace, outcome)

executeSimpleScript ==
  /\ execPc = "loop" /\ ~LoopDone
  /\ ScriptName \in SimpleScripts
  /\ \E outcome \in ExecOutcomes : Record(ExecuteSimpleScript(outcome), workspace, outcome)

executeLintScript ==
  /\ execPc = "loop" /\ ~LoopDone
  /\ ScriptName \in LintScripts
  /\ \E outcome \in ExecOutcomes : Record(ExecuteLintScript(outcome), workspace, outcome)

\* return results
testScriptsReturn ==
  /\ execPc = "loop" /\ LoopDone
  /\ execPc' = "returned"
  /\ UNCHANGED <<enumVars, tempVars, runVars, cliVars, scriptVariant, scriptPos, execResults, workspace, lastRun, ranScripts>>

NextScripts ==
  \/ readManifest
  \/ readManifestThrows
  \/ skipTest
  \/ executeUntested
  \/ executeFormattingScript
  \/ executeSimpleScript
  \/ executeLintScript
  \/ testScriptsReturn

SpecScripts == InitScripts /\ [][NextScripts]_vars

\* -------------------------------------------------------- the prompt flow
\* Values of CREATE_PACKAGE_PM and CREATE_PACKAGE_FORMATTER: unset, a name
\* of the registry, a name that is not in it.
EnvPackageManagers == {"", "bun", "npm", "yarn"}
EnvLinterFormatters == {"", "biome", "eslint", "tslint"}

\* getChoiceDescriptions(): one choice per entry of each registry.
GetChoiceDescriptions ==
  [packageManagerAndBuilders |-> choices.packageManagerAndBuilders,
   linterFormatters |-> choices.linterFormatters,
   testers |-> choices.testers]

\* The choices of the select prompt of getTester for a package manager
\* already resolved: descriptions.testers, whatever that package manager is.
TesterChoices(packageManagerAndBuilder) == Range(GetChoiceDescriptions.testers)

InitPrompts ==
  /\ EnumIdle
  /\ TempIdle
  /\ RunIdle
  /\ ScriptIdle
  /\ caller = "api"
  /\ option = NoOption
  /\ promptPc = "getPackageManagerAndBuilder"
  /\ env \in [CREATE_PACKAGE_PM : EnvPackageManagers,
              CREATE_PACKAGE_FORMATTER : EnvLinterFormatters]
  /\ config = EmptyConfig
  /\ userConfig = [createGitRepo |-> FALSE, runInstall |-> FALSE]
  /\ generator = "part_003"
  /\ generatePc = "idle"
  /\ targetProjectDirectory = Absent
  /\ targetBefore = Absent
  /\ processExit = -1

\* getPackageManagerAndBuilder(envPackageManager): the environment value if
\* it is a key of the registry, else the answer to the select prompt.
getPackageManagerAndBuilder ==
  /\ promptPc = "getPackageManagerAndBuilder"
  /\ \E answer \in Range(GetChoiceDescriptions.packageManagerAndBuilders) :
       config' = [config EXCEPT !.packageManagerAndBuilder =
                    IF env.CREATE_PACKAGE_PM # ""
                       /\ env.CREATE_PACKAGE_PM \in Range(choices.packageManagerAndBuilders)
                    THEN env.CREATE_PACKAGE_PM ELSE answer]
  /\ promptPc' = "getLinterFormatter"
  /\ UNCHANGED <<enumVars, tempVars, runVars, scriptVars, caller, option, env,
                 userConfig, generator, generatePc, targetProjectDirectory, targetBefore, processExit>>

\* getLinterFormatter(envLinterFormatter), likewise.
getLinterFormatter ==
  /\ promptPc = "getLinterFormatter"
  /\ \E answer \in Range(GetChoiceDescriptions.linterFormatters) :
       config' = [config EXCEPT !.linterFormatter =
                    IF env.CREATE_PACKAGE_FORMATTER # ""
                       /\ env.CREATE_PACKAGE_FORMATTER \in Range(choices.linterFormatters)
                    THEN env.CREATE_PACKAGE_FORMATTER ELSE answer]
  /\ promptPc' = "getTester"
  /\ UNCHANGED <<enumVars, tempVars, runVars, scriptVars, caller, option, env,
                 userConfig, generator, generatePc, targetProjectDirectory, targetBefore, processExit>>

\* getTester(): the answer to the select prompt; getProjectConfig returns.
getTester ==
  /\ promptPc = "getTester"
  /\ \E answer \in TesterChoices(config.packageManagerAndBuilder) :
       config' = [config EXCEPT !.tester = answer]
  /\ promptPc' = "returned"
  /\ UNCHANGED <<enumVars, tempVars, runVars, scriptVars, caller, option, env,
                 userConfig, generator, generatePc, targetProjectDirectory, targetBefore, processExit>>

\* main: ProjectGenerator.generateProject(config) hands the three names to
\* ProjectFactory.createProject as they are.
generateProject ==
  /\ promptPc = "returned"
  /\ promptPc' = "generated"
  /\ UNCHANGED <<enumVars, tempVars, runVars, scriptVars, caller, option, env, config,
                 userConfig, generator, generatePc, targetProjectDirectory, targetBefore, processExit>>

NextPrompts ==
  \/ getPackageManagerAndBuilder
  \/ getLinterFormatter
  \/ getTester
  \/ generateProject

SpecPrompts == InitPrompts /\ [][NextPrompts]_vars

\* -------------------------------------------------- the project generator
\* What writeProjectFiles writes, in the order of its four calls.
ProjectFiles == <<"package.json", "config files", "src", "metadata">>

\* generateProject is called with a configuration getProjectConfig can
\* return, by either of the two sources of ProjectGenerator the repository
\* holds (with a try/catch around the generation steps, and without one),
\* the target path being free or taken by a directory of the user.
InitGenerate ==
  /\ EnumIdle
  /\ TempIdle
  /\ RunIdle
  /\ ScriptIdle
  /\ caller = "api"
  /\ option = NoOption
  /\ promptPc = "returned"
  /\ env = [CREATE_PACKAGE_PM |-> "", CREATE_PACKAGE_FORMATTER |-> ""]
  /\ config \in [packageManagerAndBuilder : Range(choices.packageManagerAndBuilders),
                 linterFormatter : Range(choices.linterFormatters),
                 tester : Range(choices.testers)]
  /\ userConfig \in [createGitRepo : BOOLEAN, runInstall : BOOLEAN]
  /\ generator \in {"part_003", "project-generator.ts"}
  /\ generatePc = "existsSync"
  /\ targetProjectDirectory \in {Absent, [exists |-> TRUE, content |-> {"user files"}]}
  /\ targetBefore = targetProjectDirectory
  /\ processExit = -1

\* The generation run moves to position pc, the target becoming target.
GenerateStep(pc, target) ==
  /\ generatePc' = pc
  /\ targetProjectDirectory' = target
  /\ UNCHANGED <<enumVars, tempVars, runVars, scriptVars, caller, option, promptPc, env,
                 config, userConfig, generator, targetBefore, processExit>>

\* A generation step has thrown, leaving the target as `target`: the catch
\* block of generateProject where the source has one, else the rejection
\* reaches the catch block of main.
GenerateThrow(target) ==
  GenerateStep(IF generator = "part_003" THEN "catch" ELSE "main catch", target)

\* The process exits with `code`, the target being left as `target`.
ProcessExit(code, target) ==
  /\ generatePc' = "exited"
  /\ targetProjectDirectory' = target
  /\ processExit' = code
  /\ UNCHANGED <<enumVars, tempVars, runVars, scriptVars, caller, option, promptPc, env,
                 config, userConfig, generator, targetBefore>>

\* if (fs.existsSync(targetProjectDirectory)) { console.error(...); process.exit(1); }
targetExists ==
  /\ generatePc = "existsSync"
  /\ targetProjectDirectory.exists
  /\ ProcessExit(1, targetProjectDirectory)

\* ... else ProjectFactory.createProject(...) resolves the names, each a key
\* of its registry.
createProject ==
  /\ generatePc = "existsSync"
  /\ ~targetProjectDirectory.exists
  /\ GenerateStep("mkdirSync", targetProjectDirectory)

\* fs.mkdirSync(targetProjectDirectory, { recursive: true }), which may throw.
mkdirSync ==
  /\ generatePc = "mkdirSync"
  /\ \E throws \in BOOLEAN :
       IF throws THEN GenerateThrow(targetProjectDirectory)
       ELSE GenerateStep("writeProjectFiles", [exists |-> TRUE, content |-> {}])

\* writeProjectFiles: writePackageJson, writeConfigFiles, writeSourceFiles,
\* writeProjectMetadata; a write may throw after n of them are through.
writeProjectFiles ==
  /\ generatePc = "writeProjectFiles"
  /\ \E n \in 0..Len(ProjectFiles) :
       LET target == [targetProjectDirectory EXCEPT
                        !.content = @ \cup {ProjectFiles[k] : k \in 1..n}]
       IN IF n < Len(ProjectFiles) THEN GenerateThrow(target)
          ELSE GenerateStep("initializeGitRepo", target)

\* initializeGitRepo: GitHubService.initializeGitRepo when asked for, which
\* catches what git throws; git init may have made .git before that.
initializeGitRepo ==
  /\ generatePc = "initializeGitRepo"
  /\ \E made \in BOOLEAN :
       /\ made => userConfig.createGitRepo
       /\ GenerateStep("runInstall",
                       [targetProjectDirectory EXCEPT
                          !.content = @ \cup (IF made THEN {".git"} ELSE {})])

\* runInstall: the install command when asked for, its error caught.
runInstall ==
  /\ generatePc = "runInstall"
  /\ \E made \in BOOLEAN :
       /\ made => userConfig.runInstall
       /\ GenerateStep("displayNextSteps",
                       [targetProjectDirectory EXCEPT
                          !.content = @ \cup (IF made THEN {"node_modules"} ELSE {})])

\* displayNextSteps logs; generateProject and main return, the process ends.
displayNextSteps ==
  /\ generatePc = "displayNextSteps"
  /\ ProcessExit(0, targetProjectDirectory)

\* catch (error) { try { fs.rmSync(target, { recursive: true, force: true }) }
\* catch (cleanupError) { ... } process.exit(1) }: rmSync may throw on a
\* directory that is there, having removed nothing or a part of it.
generateCatch ==
  /\ generatePc = "catch"
  /\ \E rmThrows \in BOOLEAN, left \in SUBSET targetProjectDirectory.content :
       /\ rmThrows => targetProjectDirectory.exists
       /\ ~rmThrows => left = {}
       /\ ProcessExit(1, IF rmThrows THEN [exists |-> TRUE, content |-> left] ELSE Absent)

\* main: catch (error) { console.error('Failed to create project:', error);
\* process.exit(1); }
mainFailed ==
  /\ generatePc = "main catch"
  /\ ProcessExit(1, targetProjectDirectory)

NextGenerate ==
  \/ targetExists
  \/ createProject
  \/ mkdirSync
  \/ writeProjectFiles
  \/ initializeGitRepo
  \/ runInstall
  \/ displayNextSteps
  \/ generateCatch
  \/ mainFailed

SpecGenerate == InitGenerate /\ [][NextGenerate]_vars

\* ------------------------------------------------------- harness claims
Started(t) == task[t].pc # "idle"
Finished(t) == task[t].pc = "done"

\* The pipeline order: materialize, install, build, test, verify-exports,
\* consumer-validation, test-scripts.
PipelineOrder ==
  <<"create", "install dependencies", "build project", "run tests", "verify exports",
    "test npm package", "test scripts">>

\* The message the orchestrator owes to a step that returned failure.
StepError(e) ==
  IF e.step = "test scripts"
  THEN [kind |-> "Scripts failed",
        detail |-> LET bad == SelectSeq(e.value, LAMBDA p : p[2] = FALSE)
                   IN [k \in 1..Len(bad) |-> bad[k][1]]]
  ELSE IF e.step = "create" THEN [kind |-> "Failed to", detail |-> <<"create project">>]
  ELSE [kind |-> "Failed to", detail |-> <<e.step>>]

\* C1: the steps of a variant run in pipeline order, a step is invoked only
\* after every earlier one returned success, and once a step has returned
\* failure no further step is invoked and the result has success = false and
\* the error message of that step, different from that of any other step.
C1_StepsInOrderUntilFirstFailure ==
  \A t \in DOMAIN task :
    LET tr == task[t].trace
    IN /\ Len(tr) <= Len(PipelineOrder)
       /\ \A k \in 1..Len(tr) : tr[k].step = PipelineOrder[k]
       /\ \A k \in 1..(Len(tr) - 1) : ~EntryFailed(tr[k])
       /\ (Finished(t) /\ EntryFailed(tr[Len(tr)])) => ~task[t].result.success
       /\ (Finished(t) /\ EntryFailed(tr[Len(tr)]) /\ ~tr[Len(tr)].thrown) =>
            /\ task[t].result.error = StepError(tr[Len(tr)])
            /\ \A u \in DOMAIN task :
                 (Finished(u) /\ Len(task[u].trace) # Len(tr))
                   => task[u].result.error # task[t].result.error
       /\ (Finished(t) /\ task[t].result.success) => Len(tr) = Len(PipelineOrder)

C1_Witness ==
  \E t \in DOMAIN task :
    /\ Finished(t)
    /\ Len(task[t].trace) = 4
    /\ task[t].trace[4].value = FALSE
    /\ task[t].result.error = [kind |-> "Failed to", detail |-> <<"run tests">>]

\* C2 as stated: when the call for a variant has resolved, on whatever exit
\* path, its primary workspace is deleted and no longer tracked.
C2_WorkspaceReleased ==
  \A t \in DOMAIN task :
    Finished(t) => (ProjectDirOf(t) \notin exists /\ ProjectDirOf(t) \notin Range(tempDirs))

\* C2 amended: when the call for a variant has resolved, on whatever exit
\* path, its primary workspace is deleted and no longer tracked unless its
\* rmSync threw (the error is caught by cleanupTempDir).
C2_WorkspaceReleasedUnlessRmThrew ==
  \A t \in DOMAIN task :
    (Finished(t) /\ ProjectDirOf(t) \notin rmFailed)
      => (ProjectDirOf(t) \notin exists /\ ProjectDirOf(t) \notin Range(tempDirs))

C2_Witness ==
  \E t, u \in DOMAIN task :
    /\ Finished(t) /\ task[t].result.success
    /\ Finished(u) /\ ~task[u].result.success /\ Len(task[u].trace) > 1
    /\ {ProjectDirOf(t), ProjectDirOf(u)} \subseteq allocated
    /\ {ProjectDirOf(t), ProjectDirOf(u)} \cap exists = {}

\* C3: once the harness run has ended (the runner script has exited, or the
\* explicit final cleanup has been made), no allocated directory, primary or
\* consumer, exists on disk or is tracked; stated for the runs in which no
\* deletion raised an error.
C3_AllWorkspacesDeleted ==
  (phase \in {"exited", "cleaned"} /\ rmFailed = {}) =>
    \A d \in allocated : d \notin exists /\ d \notin Range(tempDirs)

\* C11: a failure or a thrown exception in one variant's pipeline stops no
\* other variant: in both modes, once runAllTests has returned every
\* enumerated variant has been started, has finished, and has exactly one
\* result, at its own position; a failed variant is among them.
C11_FailureIsolation ==
  phase \in {"returned", "exited", "cleaned"} =>
    /\ \A t \in DOMAIN task : Started(t) /\ Finished(t)
    /\ Len(results) = totalVariants
    /\ \A k \in 1..Len(results) : results[k] = task[k].result /\ results[k].variant = variants[k]

C11_Witness ==
  /\ phase = "returned"
  /\ concurrency = 2
  /\ Len(results) = 3
  /\ results[1].error.kind = "thrown"
  /\ results[2].success
  /\ results[3].success

\* The scripts the manifest of a variant declares, `test` left out.
DeclaredScripts(variant) == Range(ManifestScripts(variant)) \ {"test"}

\* C12: in every result with success = true, buildSuccess, exportsMatch and
\* npmPackageWorks are all true and every script declared in the manifest
\* other than `test` has the outcome true in scriptResults.
C12_SuccessMeansEveryStepPassed ==
  \A t \in DOMAIN task :
    (Finished(t) /\ task[t].result.success) =>
      /\ task[t].result.buildSuccess = {TRUE}
      /\ task[t].result.exportsMatch = {TRUE}
      /\ task[t].result.npmPackageWorks = {TRUE}
      /\ \E scriptResults \in task[t].result.scriptResults :
           \A name \in DeclaredScripts(task[t].result.variant) :
             \E k \in 1..Len(scriptResults) : scriptResults[k] = <<name, TRUE>>

\* C18: for a variant whose tester is `none` the test command is never
\* executed and the run tests step returns success, so when its other steps
\* pass its result has success = true.
C18_NoTesterNoTestCommand ==
  \A t \in DOMAIN task :
    variants[t].tester = "none" =>
      LET tr == task[t].trace
      IN /\ t \notin testCommands
         /\ \A k \in 1..Len(tr) : tr[k].step = "run tests" => tr[k].value = TRUE
         /\ (Finished(t) /\ \A k \in 1..Len(tr) : tr[k].step # "run tests" => ~EntryFailed(tr[k]))
              => task[t].result.success

C18_Witness ==
  \E t, u \in DOMAIN task :
    /\ variants[t].tester = "none"
    /\ Finished(t) /\ task[t].result.success
    /\ t \notin testCommands
    /\ u \in testCommands

\* The createTestProject call for t went through its catch block.
CreateCaught(t) ==
  /\ Started(t)
  /\ task[t].trace[1].step = "create"
  /\ ~task[t].trace[1].value /\ ~task[t].trace[1].thrown

\* C20 as stated: if resolving the variant or writing the project files
\* throws inside createTestProject, the workspace allocated for the call is
\* deleted and untracked when it returns, and it returns {success: false}
\* with no workspace path.
C20_FailedCreateCleansUp ==
  \A t \in DOMAIN task :
    CreateCaught(t) =>
      /\ ProjectDirOf(t) \in allocated
      /\ ProjectDirOf(t) \notin exists /\ ProjectDirOf(t) \notin Range(tempDirs)
      /\ task[t].projectDir = NoDir

\* C20 amended: the same, the workspace being deleted and untracked unless
\* its rmSync threw (cleanupTempDir catches the error and leaves it in place).
C20_FailedCreateCleansUpUnlessRmThrew ==
  /\ \A t \in DOMAIN task :
       CreateCaught(t) =>
         /\ ProjectDirOf(t) \in allocated
         /\ ProjectDirOf(t) \notin rmFailed
              => (ProjectDirOf(t) \notin exists /\ ProjectDirOf(t) \notin Range(tempDirs))
         /\ task[t].projectDir = NoDir
  /\ \A t \in DOMAIN task, rmThrows \in BOOLEAN :
       LET created == CreateTestProject(TempState, ProjectDirOf(t), "failed", rmThrows)
       IN ~created.success /\ created.projectDir = NoDir

C20_Witness ==
  \E t, u \in DOMAIN task :
    /\ CreateCaught(t) /\ Finished(t)
    /\ task[t].result.error = [kind |-> "Failed to", detail |-> <<"create project">>]
    /\ ProjectDirOf(t) \in allocated /\ ProjectDirOf(t) \notin exists
    /\ u # t /\ ProjectDirOf(u) \in exists

\* C9: with concurrency above 1 the results list follows the variant list
\* position by position, and holds one result per variant once runAllTests
\* has returned, whatever order the calls of a chunk resolved in.
C9_ResultsInEnumerationOrder ==
  concurrency > 1 =>
    /\ Len(results) <= totalVariants
    /\ \A k \in 1..Len(results) : results[k].variant = variants[k]
    /\ phase \in {"returned", "exited", "cleaned"} => Len(results) = totalVariants

C9_Witness ==
  /\ phase = "returned"
  /\ concurrency > 1
  /\ reordered
  /\ Len(results) = 3

\* The chunk of a variant position for the configured concurrency.
ChunkOf(t) == (t - 1) \div concurrency

\* C10: with concurrency c above 1 a variant's pipeline is started only when
\* every variant of the earlier chunks of size c has finished, and at most c
\* pipelines are in flight.
C10_ChunkBarrier ==
  concurrency > 1 =>
    /\ \A t, u \in DOMAIN task : (Started(t) /\ ChunkOf(u) < ChunkOf(t)) => Finished(u)
    /\ \A t, u \in DOMAIN task : (Started(t) /\ u < t) => Started(u)
    /\ Cardinality({t \in DOMAIN task : task[t].pc = "awaiting"}) <= concurrency

C10_Witness ==
  /\ concurrency = 2
  /\ \E t \in DOMAIN task : ChunkOf(t) = 1 /\ task[t].pc = "awaiting" /\ Len(task[t].trace) > 1
  /\ \A u \in DOMAIN task : ChunkOf(u) = 0 => Finished(u)

\* The consumer-validation step of the call for variant t has completed.
ConsumerStepDone(t) ==
  \E k \in 1..Len(task[t].trace) : task[t].trace[k].step = "test npm package"

\* C21: once the consumer-validation step of a variant has completed, the
\* consumer workspace it allocated is deleted and no longer tracked.
C21_ConsumerWorkspaceReleased ==
  \A t \in DOMAIN task :
    (ConsumerStepDone(t) /\ ConsumerDirOf(t) \in allocated)
      => (ConsumerDirOf(t) \notin exists /\ ConsumerDirOf(t) \notin Range(tempDirs))

\* The pipeline that allocated directory d has run its cleanup of d.
CleanedByOwner(d) ==
  \E t \in DOMAIN task : d = ProjectDirOf(t) /\ (CreateCaught(t) \/ Finished(t))

\* C22: under batched-parallel execution, in every interleaving of the calls
\* of a chunk, the tracked list loses no update: it holds each allocated path
\* once, a path stays in it until the cleanup of the pipeline that allocated
\* it removes it, and that cleanup removes it (unless its rmSync threw).
C22_NoLostUpdate ==
  (concurrency > 1 /\ phase # "cleaned") =>
    /\ Len(tempDirs) = Cardinality(Range(tempDirs))
    /\ Range(tempDirs) \subseteq allocated
    /\ \A d \in allocated : d \notin Range(tempDirs) => CleanedByOwner(d)
    /\ \A d \in allocated : (CleanedByOwner(d) /\ d \notin rmFailed) => d \notin Range(tempDirs)

C22_Witness ==
  /\ concurrency > 1
  /\ \E t, u \in DOMAIN task :
       /\ t < u /\ ChunkOf(t) = ChunkOf(u)
       /\ task[t].pc = "awaiting" /\ ProjectDirOf(t) \in Range(tempDirs)
       /\ Finished(u) /\ ProjectDirOf(u) \in allocated \ Range(tempDirs)
       /\ ConsumerDirOf(u) \in Range(tempDirs)
       /\ tempDirs[1] = ProjectDirOf(t)

\* The call for variant t has resolved with a failed result: an error was
\* thrown in its pipeline (by mkdtempSync, or inside a step that caught it
\* and returned failure) and its finally block has run.
FailedAndCleaned(t) == Finished(t) /\ ~task[t].result.success

\* C23: after an error was thrown inside the pipeline of a variant and the
\* cleanup of that variant has run, the tracked list holds no path twice and
\* no workspace of the failed variant, neither its primary nor its consumer
\* workspace; stated for the runs in which no deletion has thrown.
C23_TrackedListConsistentAfterFailure ==
  \A t \in DOMAIN task :
    (FailedAndCleaned(t) /\ rmFailed = {}) =>
      /\ Len(tempDirs) = Cardinality(Range(tempDirs))
      /\ ProjectDirOf(t) \notin Range(tempDirs)
      /\ ConsumerDirOf(t) \notin Range(tempDirs)

\* C24: the runner exits with code 0 only if every variant of the run has
\* success = true and with code 1 otherwise, also when an exception escapes
\* report generation; before that no exit code is set.
C24_ExitCode ==
  /\ phase = "exited" =>
       /\ Len(results) = totalVariants
       /\ exitCode = IF \A t \in DOMAIN task : task[t].result.success THEN 0 ELSE 1
  /\ phase = "crashed" => exitCode = 1
  /\ phase \notin {"exited", "crashed"} => exitCode = -1

C24_Witness ==
  /\ phase = "exited"
  /\ exitCode = 1
  /\ Len(results) = 3
  /\ Cardinality({k \in 1..Len(results) : results[k].success}) = 2

\* C25: a value thrown at orchestrator level during the pipeline of a
\* variant is caught and recorded on the result of that variant: success is
\* false and error is the message of the thrown Error, or 'Unknown error'
\* when the value is not an Error; the call still goes through its cleanup,
\* leaving no primary workspace behind, and its result is the one returned.
C25_ThrownErrorRecorded ==
  \A t \in DOMAIN task :
    (Finished(t) /\ task[t].caught # NoThrow) =>
      /\ ~task[t].result.success
      /\ task[t].result.error.kind = "thrown"
      /\ task[t].caught.isError => task[t].result.error.detail = <<task[t].caught.message>>
      /\ ~task[t].caught.isError => task[t].result.error.detail = <<"Unknown error">>
      /\ ProjectDirOf(t) \notin exists /\ ProjectDirOf(t) \notin Range(tempDirs)
      /\ Len(results) >= t => results[t] = task[t].result

C25_Witness ==
  \E t, u \in DOMAIN task :
    /\ Finished(t) /\ ~task[t].caught.isError /\ task[t].caught # NoThrow
    /\ task[t].result.error.detail = <<"Unknown error">>
    /\ Len(results) = 3 /\ ~results[t].success
    /\ t < u /\ results[u].success

\* C26: when the primary workspace of a variant cannot be created or its
\* project cannot be resolved, no install, build or later step is attempted
\* for it, and the variant contributes one ordinary failed result (success
\* false, an error message) in its place; the run goes on to its end.
C26_CreateFailureShortCircuits ==
  \A t \in DOMAIN task :
    (Started(t) /\ EntryFailed(task[t].trace[1])) =>
      /\ Len(task[t].trace) = 1
      /\ t \notin testCommands
      /\ ConsumerDirOf(t) \notin allocated
      /\ Finished(t) =>
           /\ ~task[t].result.success
           /\ task[t].result.error.kind \in {"thrown", "Failed to"}
           /\ task[t].result.buildSuccess = Unset
           /\ task[t].result.scriptResults = Unset
      /\ Len(results) >= t => (Finished(t) /\ results[t] = task[t].result)
      /\ phase \in {"returned", "exited", "crashed", "cleaned"} => Len(results) = totalVariants

C26_Witness ==
  \E t, u \in DOMAIN task :
    /\ CreateCaught(t) /\ Finished(t)
    /\ phase = "returned" /\ Len(results) = 3
    /\ results[t].error = [kind |-> "Failed to", detail |-> <<"create project">>]
    /\ t < u /\ results[u].success

\* The outcome the steps of the call for t determine, deletions left aside.
StepsPassed(t) ==
  /\ Len(task[t].trace) = Len(PipelineOrder)
  /\ ~EntryFailed(task[t].trace[Len(task[t].trace)])

\* C27: an error of rmSync inside cleanupTempDir or cleanupAll is caught and
\* reaches no caller. A variant whose workspace could not be deleted resolves
\* with the result its steps determine, the run still returns one result per
\* variant, and cleanupAll goes on to the next tracked directory after a
\* deletion that threw.
C27_DeletionErrorSwallowed ==
  /\ \A t \in DOMAIN task :
       (Finished(t) /\ ProjectDirOf(t) \in rmFailed) =>
         /\ task[t].result.success <=> StepsPassed(t)
         /\ task[t].result.error.kind # "thrown"
         /\ task[t].result.success => task[t].result.error = UnsetError
  /\ (rmFailed # {} /\ phase \in {"returned", "exited", "crashed", "cleaned"}) =>
       /\ Len(results) = totalVariants
       /\ \A t \in DOMAIN task : Finished(t) /\ results[t] = task[t].result
  /\ lastCall.op = "cleanupAll" =>
       \A k \in 1..(Len(lastCall.before) - 1) :
         (\A j \in 1..k : lastCall.before[j] \in lastCall.threw) =>
           (lastCall.before[k + 1] \in lastCall.threw \/ lastCall.before[k + 1] \notin exists)

C27_Witness ==
  /\ phase = "cleaned"
  /\ Len(lastCall.before) = 3
  /\ lastCall.before[1] \in lastCall.threw /\ lastCall.before[1] \in exists
  /\ lastCall.before[2] \notin exists
  /\ Len(results) = 3 /\ \A k \in 1..3 : results[k].success

\* C28: the runner uses 3 concurrent tests when started without a
\* concurrency option, N concurrent tests when started with --concurrency=N,
\* and runs sequentially with --concurrency=1.
C28_ConcurrencyOption ==
  caller = "main" =>
    /\ option = NoOption => concurrency = 3
    /\ option # NoOption => concurrency = option

\* The step fields of result r fit the trace tr of the call that made it.
StepFieldsChained(r, tr) ==
  /\ r.scriptResults # Unset => r.npmPackageWorks = {TRUE}
  /\ r.npmPackageWorks # Unset => r.exportsMatch = {TRUE}
  /\ r.exportsMatch # Unset => r.buildSuccess = {TRUE}
  /\ r.buildSuccess # Unset =>
       /\ Len(tr) >= 3
       /\ ~EntryFailed(tr[1])
       /\ tr[2].step = "install dependencies" /\ tr[2].value = TRUE
       /\ tr[3].step = "build project" /\ r.buildSuccess = {tr[3].value}

\* C31: in every result the step fields form a chain: scriptResults is
\* defined only if npmPackageWorks is true, npmPackageWorks only if
\* exportsMatch is true, exportsMatch only if buildSuccess is true, and
\* buildSuccess only if the project was created and its install succeeded.
C31_StepFieldsChain ==
  /\ \A t \in DOMAIN task : StepFieldsChained(task[t].result, task[t].trace)
  /\ \A k \in 1..Len(results) : StepFieldsChained(results[k], task[k].trace)

C31_Witness ==
  \E k \in 1..Len(results) :
    /\ results[k].buildSuccess = {TRUE}
    /\ results[k].exportsMatch = {FALSE}
    /\ results[k].npmPackageWorks = Unset
    /\ results[k].scriptResults = Unset
    /\ phase = "returned"

\* C32: in every result runAllTests returns, success = true implies that
\* error is unset and success = false implies that error is set to a
\* message: no successful result has an error, no failed result lacks one.
C32_ErrorIffFailed ==
  \A k \in 1..Len(results) :
    /\ results[k].success => results[k].error = UnsetError
    /\ ~results[k].success =>
         /\ results[k].error # UnsetError
         /\ results[k].error.kind \in {"Failed to", "Scripts failed", "thrown"}
         /\ results[k].error.detail # <<>>

C32_Witness ==
  /\ phase = "returned"
  /\ \E j, k \in 1..Len(results) :
       /\ results[j].success /\ results[j].error = UnsetError
       /\ ~results[k].success /\ results[k].error.kind = "Scripts failed"

\* C33: for every integer concurrency the generator is constructed with, 0
\* included, and every variant list, runAllTests eventually returns a list
\* with one result per variant, provided every subprocess call returns.
C33_RunAllTestsTerminates ==
  <>(phase \in {"returned", "exited", "crashed", "cleaned"} /\ Len(results) = totalVariants)

\* The step named has returned in the call for variant t.
StepDone(t, name) == \E k \in 1..Len(task[t].trace) : task[t].trace[k].step = name

\* C34: within the pipeline of a variant the clean script, which deletes the
\* build output, is executed only after verifyExports and
\* testPackageAsNpmPackage have both completed for that variant.
C34_CleanAfterInspection ==
  \A t \in DOMAIN task :
    t \in cleanRuns =>
      /\ StepDone(t, "verify exports") /\ StepDone(t, "test npm package")
      /\ StepDone(t, "test scripts")
      /\ \E k \in 1..Len(task[t].trace) :
           /\ task[t].trace[k].step = "test scripts"
           /\ \E a, b \in 1..(k - 1) :
                /\ task[t].trace[a].step = "verify exports"
                /\ task[t].trace[b].step = "test npm package"

C34_Witness ==
  \E t, u \in DOMAIN task :
    /\ t \in cleanRuns /\ Finished(t) /\ task[t].result.success
    /\ u \notin cleanRuns /\ StepDone(u, "verify exports") /\ Finished(u)

\* The step invocations and the workspace cleanup of the refactored call for t.
RefactoredEvents(t) ==
  [k \in 1..Len(task[t].trace) |-> task[t].trace[k].step]
    \o (IF task[t].projectDir # NoDir THEN <<"cleanupTempDir">> ELSE <<>>)

\* Results r and m agree in everything but the text of the error message.
SameUpToErrorText(r, m) ==
  /\ r.variant = m.variant
  /\ r.success = m.success
  /\ r.buildSuccess = m.buildSuccess
  /\ r.exportsMatch = m.exportsMatch
  /\ r.npmPackageWorks = m.npmPackageWorks
  /\ r.scriptResults = m.scriptResults
  /\ (r.error = UnsetError) <=> (m.error = UnsetError)

\* C36: for the same variant list and the same outcome of every step, the
\* monolithic runAllTests and the refactored run with concurrency 1 perform
\* the same sequence of step invocations and workspace cleanups, one variant
\* after the other, and return results with the same success flag and the
\* same buildSuccess, exportsMatch, npmPackageWorks and scriptResults fields,
\* differing at most in the text of the error message.
C36_MonolithEquivalent ==
  concurrency = 1 =>
    /\ \A t \in DOMAIN task :
         Started(t) => \A u \in 1..(t - 1) : Finished(u) /\ Len(results) >= u
    /\ \A t \in DOMAIN task :
         Finished(t) =>
           LET m == MonolithFrom(NewResult(variants[t]), task[t].trace, task[t].caught, 1)
           IN /\ m.replayed
              /\ MonolithEvents(m) = RefactoredEvents(t)
              /\ SameUpToErrorText(task[t].result, m.result)
    /\ phase \in {"returned", "exited", "crashed", "cleaned"} =>
         LET pushed == MonolithRunAllTests(variants, [t \in DOMAIN task |-> task[t].trace],
                                           [t \in DOMAIN task |-> task[t].caught])
         IN /\ Len(results) = Len(pushed)
            /\ \A k \in 1..Len(results) : SameUpToErrorText(results[k], pushed[k])

C36_Witness ==
  /\ concurrency = 1
  /\ phase = "returned"
  /\ Len(results) >= 2
  /\ \E k \in 1..Len(results) :
       /\ ~results[k].success
       /\ results[k].exportsMatch = {FALSE}
       /\ RefactoredEvents(k)[Len(RefactoredEvents(k))] = "cleanupTempDir"
  /\ \E k \in 1..Len(results) : results[k].success

\* -------------------------------------------------- workspace manager claims
\* C4: after a cleanupAll() call in which no deletion raised an error, every
\* directory tracked when it was called is deleted and the list is empty.
C4_CleanupAllDeletesEveryTracked ==
  (lastCall.op = "cleanupAll" /\ lastCall.threw = {}) =>
    /\ tempDirs = <<>>
    /\ \A k \in 1..Len(lastCall.before) : lastCall.before[k] \notin exists

\* C19: cleanupTempDir applied to a path that is absent on disk and not
\* tracked changes neither the disk nor the tracked list and raises nothing,
\* and applying it a second time after a first application that deleted the
\* path gives the state the first one gave.
C19_CleanupTempDirIdempotent ==
  /\ \A dir \in allocated :
       (dir \notin exists /\ dir \notin Range(tempDirs)) =>
         \A rmThrows \in BOOLEAN : CleanupTempDir(TempState, dir, rmThrows) = TempState
  /\ \A dir \in allocated :
       LET once == CleanupTempDir(TempState, dir, FALSE)
       IN \A rmThrows \in BOOLEAN : CleanupTempDir(once, dir, rmThrows) = once
  /\ (lastCall.op = "cleanupTempDir" /\ lastCall.dir \notin Range(lastCall.before)) =>
       /\ tempDirs = lastCall.before
       /\ lastCall.dir \notin exists
       /\ lastCall.threw = {}

C19_Witness ==
  /\ lastCall.op = "cleanupTempDir"
  /\ lastCall.dir \in allocated
  /\ lastCall.dir \notin Range(lastCall.before)
  /\ tempDirs = lastCall.before
  /\ Len(tempDirs) >= 1

\* C35: after any sequence of createTempDir, cleanupTempDir and cleanupAll
\* calls every allocated directory that is still on disk is still tracked; a
\* path that left the list in the last call is absent from the disk, and a
\* path whose deletion threw in the last call is still tracked.
C35_ExistingDirsStayTracked ==
  /\ \A dir \in allocated : dir \in exists => dir \in Range(tempDirs)
  /\ \A dir \in Range(lastCall.before) \ Range(tempDirs) : dir \notin exists
  /\ \A dir \in lastCall.threw : dir \in exists /\ dir \in Range(tempDirs)

C35_Witness ==
  /\ lastCall.op \in {"cleanupTempDir", "cleanupAll"}
  /\ lastCall.threw # {}
  /\ lastCall.threw \subseteq Range(tempDirs) \cap exists
  /\ \E dir \in allocated : dir \notin exists /\ dir \notin Range(tempDirs)

\* ------------------------------------------------- enumerator as a machine
InitEnum ==
  /\ catalog \in Catalogs
  /\ variants = <<>>
  /\ returned = <<>>
  /\ prevReturned = <<>>
  /\ lastMode = "none"
  /\ prevMode = "none"
  /\ calls = 0
  /\ TempIdle
  /\ RunIdle
  /\ ScriptIdle
  /\ CliIdle

generateAllVariants ==
  /\ phase = "idle"
  /\ calls < MaxCalls
  /\ variants' = GenerateAllVariants(variants, catalog)
  /\ returned' = variants'
  /\ prevReturned' = returned
  /\ lastMode' = "all"
  /\ prevMode' = lastMode
  /\ calls' = calls + 1
  /\ UNCHANGED <<catalog, scriptVars, cliVars, tempVars, runVars>>

generateTestVariants ==
  /\ phase = "idle"
  /\ calls < MaxCalls
  /\ variants' = GenerateTestVariants(variants)
  /\ returned' = variants'
  /\ prevReturned' = returned
  /\ lastMode' = "smoke"
  /\ prevMode' = lastMode
  /\ calls' = calls + 1
  /\ UNCHANGED <<catalog, scriptVars, cliVars, tempVars, runVars>>

NextEnum == generateAllVariants \/ generateTestVariants

SpecEnum == InitEnum /\ [][NextEnum]_vars

\* ------------------------------------------------------------- enumerator claims
\* The lists the latest generate call iterated over.
UsedCatalog == IF lastMode = "smoke" THEN SmokeCatalog ELSE catalog

\* 1-based position of a name in a catalog axis.
Position(axis, x) == CHOOSE k \in 1..Len(axis) : axis[k] = x

\* Position of a variant in the nesting pmb, lf, tester, versioning.
NestingKey(cat, v) ==
  <<Position(cat.packageManagerAndBuilders, v.packageManagerAndBuilder),
    Position(cat.linterFormatters, v.linterFormatter),
    Position(cat.testers, v.tester),
    Position(cat.versioning, v.versioning)>>

\* Lexicographic order on nesting keys.
KeyLess(a, b) ==
  \E k \in 1..4 : a[k] < b[k] /\ \A j \in 1..(k - 1) : a[j] = b[j]

Incompatible(pmb, tester) == pmb = "npm" /\ tester = "buntest"

\* Every combination of the catalogs except the runtime-incompatible ones.
ValidCombinations(cat) ==
  {TestVariant(p, l, t, v) :
     <<p, l, t, v>> \in {q \in Range(cat.packageManagerAndBuilders) \X Range(cat.linterFormatters)
                                \X Range(cat.testers) \X Range(cat.versioning) :
                           ~Incompatible(q[1], q[3])}}

SameTuple(a, b) ==
  /\ a.packageManagerAndBuilder = b.packageManagerAndBuilder
  /\ a.linterFormatter = b.linterFormatter
  /\ a.tester = b.tester
  /\ a.versioning = b.versioning

C7_NoDuplicateVariants ==
  \A a, b \in 1..Len(returned) : a # b => ~SameTuple(returned[a], returned[b])

C7_Witness == calls >= 2 /\ Len(returned) >= 2 /\ Len(prevReturned) >= 2

\* C8: the returned list is every valid combination exactly in the nesting
\* order package manager, linter, tester, versioning, each axis in catalog
\* order, and a repeated enumeration in the same mode returns the same list.
C8_EnumerationOrder ==
  lastMode # "none" =>
    /\ \A a, b \in 1..Len(returned) :
         a < b => KeyLess(NestingKey(UsedCatalog, returned[a]), NestingKey(UsedCatalog, returned[b]))
    /\ Range(returned) = ValidCombinations(UsedCatalog)
    /\ (prevMode = lastMode => prevReturned = returned)

C8_Witness ==
  /\ lastMode = "all" /\ prevMode = "all"
  /\ Len(catalog.packageManagerAndBuilders) = 2
  /\ Len(catalog.linterFormatters) >= 2
  /\ Len(catalog.testers) = 3
  /\ Len(catalog.versioning) = 2
  /\ Len(returned) = 2 * Len(catalog.linterFormatters) * 3 * 2 - 2 * Len(catalog.linterFormatters)

\* ------------------------------------------------- script executor claims
\* The scripts the mapping of the loop records as failed.
FailedRuns == {execResults[k][1] : k \in {j \in 1..Len(execResults) : ~execResults[j][2]}}

\* C13: a failing script does not stop the script loop: the mapping a
\* testScripts call returns from its loop has an entry for every declared
\* script other than `test`, in manifest order, and the step is judged on the
\* whole mapping: it fails exactly if some outcome is false, and the error
\* then names every failing script.
C13_ScriptLoopRunsToCompletion ==
  execPc = "returned" =>
    /\ execResults = TestScripts(scriptVariant, FailedRuns)
    /\ {execResults[k][1] : k \in 1..Len(execResults)} = DeclaredScripts(scriptVariant)
    /\ LET judged == ValidateStepResult(execResults, "test scripts")
       IN /\ judged.ok = (FailedRuns = {})
          /\ ~judged.ok =>
               /\ judged.error.kind = "Scripts failed"
               /\ Range(judged.error.detail) = FailedRuns
               /\ Len(judged.error.detail) = Cardinality(FailedRuns)

C13_Witness ==
  /\ execPc = "returned"
  /\ Cardinality(FailedRuns) = 2
  /\ \E j, k \in 1..Len(execResults) :
       /\ j < k
       /\ execResults[j] = <<"clean", FALSE>>
       /\ execResults[k] = <<"lint:fix", TRUE>>
  /\ lastRun.name = "lint:fix"

\* The latest command ended with one of the given exit statuses.
ExitedWith(statuses) ==
  lastRun.outcome.kind = "exit" /\ \E n \in statuses : lastRun.outcome.status = {n}

\* The value the latest script run returned is its entry in the mapping.
RecordedLast ==
  \A k \in 1..Len(execResults) :
    execResults[k][1] = lastRun.name => execResults[k][2] = lastRun.value

\* C14: for the `lint` script the recorded outcome is true when the command
\* exits with status 0 or 1 and false when it exits with status 2, with any
\* other status, or fails without a status.
C14_LintTolerance ==
  lastRun.name = "lint" =>
    /\ RecordedLast
    /\ lastRun.value = ExitedWith({0, 1})
    /\ ExitedWith({2}) => ~lastRun.value

C14_Witness ==
  /\ lastRun.name = "lint"
  /\ ExitedWith({1})
  /\ \E k \in 1..Len(execResults) : execResults[k] = <<"lint", TRUE>>

C16_SourceRestored ==
  lastRun.name \in {"lint:fix", "format"} => workspace.src = lastRun.before.src

\* C17: for the `typecheck` and `clean` scripts the recorded outcome is true
\* only when the command exits with status 0.
C17_SimpleScriptsStrict ==
  lastRun.name \in {"typecheck", "clean"} =>
    /\ RecordedLast
    /\ lastRun.value = ExitedWith({0})

C17_Witness ==
  /\ lastRun.name = "typecheck"
  /\ ExitedWith({1})
  /\ \E k \in 1..Len(execResults) : execResults[k] = <<"typecheck", FALSE>>

\* C30: in the mapping of testScripts, build, dev and every script name other
\* than lint, lint:fix, format, typecheck and clean is recorded as true and no
\* command is executed for it; the test script gets no entry and no command;
\* the returned mapping has such an entry for each of those declared scripts.
C30_UntestedScriptsMarkedTrue ==
  /\ \A k \in 1..Len(execResults) :
       /\ execResults[k][1] # "test"
       /\ execResults[k][1] \notin ExecutedScripts =>
            (execResults[k][2] = TRUE /\ execResults[k][1] \notin ranScripts)
  /\ "test" \notin ranScripts
  /\ ranScripts \subseteq ExecutedScripts
  /\ execPc = "returned" =>
       \A name \in Range(Scripts) \ ({"test"} \cup ExecutedScripts) :
         \E k \in 1..Len(execResults) : execResults[k] = <<name, TRUE>>

C30_Witness ==
  /\ execPc = "returned"
  /\ "test" \in Range(Scripts)
  /\ \E j, k, l \in 1..Len(execResults) :
       /\ execResults[j] = <<"build", TRUE>>
       /\ execResults[k] = <<"test:watch", TRUE>>
       /\ execResults[l] = <<"clean", FALSE>>
  /\ ranScripts = ExecutedScripts

\* ------------------------------------------------------ prompt flow claims
\* C29: with package manager npm the only test framework offered is vitest,
\* and no configuration the prompt flow returns and hands to the generator
\* combines package manager npm with tester buntest.
C29_NpmOffersVitestOnly ==
  /\ (promptPc = "getTester" /\ config.packageManagerAndBuilder = "npm")
       => TesterChoices(config.packageManagerAndBuilder) = {"vitest"}
  /\ promptPc \in {"returned", "generated"}
       => ~Incompatible(config.packageManagerAndBuilder, config.tester)

====
